---- MODULE Spec2Model ----
(***************************************************************************)
(* TrustWatch monitoring engine: the BullMQ crawl queue, the crawl worker  *)
(* (processCrawlJob and its helpers), the direct CrawlService path used by *)
(* the API-side cron job and the demo route, and the MongoDB store they    *)
(* share.  Every store or queue call of the code is one atomic step; the   *)
(* points between two awaits are the interleaving points of the runners.   *)
(***************************************************************************)
EXTENDS Integers, Sequences, FiniteSets, TLC

(***************************************************************************)
(* Bounds of the model (not program constants).                            *)
(***************************************************************************)
MaxPasses == 3      \* crawl passes started in one behaviour
MaxAdds == 2        \* calls of enqueueCrawlTarget / enqueueCrawlTargetsBatch
MaxHours == 1       \* idle hours that may pass

(***************************************************************************)
(* Program constants.                                                      *)
(***************************************************************************)
Attempts == 3            \* defaultJobOptions.attempts
RateLimit == 5           \* recentAlerts >= 5
HourMs == 3600000        \* 60 * 60 * 1000
MaxRisk == 100           \* Math.min(100, ...)
MaxPdfs == 3             \* matches.slice(0, 3)
LongText == 500          \* expandSnippet: text.length > 500

Workers == {"w1", "w2"}          \* crawl worker slots (concurrency > 1)
Replicas == {"s1", "s2"}         \* processes that run startCrawlScheduler
Services == {"svc"}              \* CrawlService called in the API process
Runners == Workers \cup Services
Targets == {"t1", "t2"}          \* CrawlTargets of the one watched company

Url(t) == IF t = "t1" THEN "https://acme.com/security" ELSE "https://acme.com/trust"
JobKey(t) == <<"crawl", "acme", t>>

NoSnippet == <<>>
NoHash == <<>>
NoTime == -1
NoFields == <<>>

(***************************************************************************)
(* Page text.  A page is [sents: sequence of sentences, len: characters,   *)
(* pdfs: the PDF links in it].  A sentence is its text.                    *)
(***************************************************************************)
S_SOC == "We are SOC 2 Type II compliant."
S_SOC_REPORT == "Our SOC 2 Type II report is available upon request."
S_ISO == "We are also ISO 27001 certified."
S_HIPAA == "We are HIPAA compliant."
S_GDPR == "We are GDPR compliant."
S_PCI == "We are PCI DSS certified."
S_CCPA == "We honor CCPA requests."
S_UP_9999 == "We guarantee 99.99% uptime."
S_UP_999 == "We guarantee 99.9% uptime."
S_UP_STRIVE == "We strive for 99.9% uptime."
S_DNS == "We do not sell customer data."
S_MAY == "We may share data with trusted partners."

Sentences ==
  {S_SOC, S_SOC_REPORT, S_ISO, S_HIPAA, S_GDPR, S_PCI, S_CCPA,
   S_UP_9999, S_UP_999, S_UP_STRIVE, S_DNS, S_MAY}

\* ClaimExtractor.patterns, in declaration order (Object.entries order).
PatternOrder ==
  <<"SOC2_TYPE_II", "ISO_27001", "HIPAA", "GDPR", "PCI_DSS", "CCPA",
    "DO_NOT_SELL", "UPTIME">>

PatternType(k) ==
  CASE k = "DO_NOT_SELL" -> "privacy"
    [] k = "UPTIME" -> "sla"
    [] OTHER -> "compliance"

\* pattern.polarity || 'neutral'
PatternPolarity(k) == IF k = "DO_NOT_SELL" THEN "negative" ELSE "neutral"

PatternExtractNumber(k) == k = "UPTIME"

\* pattern.regex evaluated on the sentences of the model.
RegexMatches(k, s) ==
  CASE k = "SOC2_TYPE_II" -> s \in {S_SOC, S_SOC_REPORT}
    [] k = "ISO_27001" -> s = S_ISO
    [] k = "HIPAA" -> s = S_HIPAA
    [] k = "GDPR" -> s = S_GDPR
    [] k = "PCI_DSS" -> s = S_PCI
    [] k = "CCPA" -> s = S_CCPA
    [] k = "DO_NOT_SELL" -> s = S_DNS
    [] k = "UPTIME" -> s \in {S_UP_9999, S_UP_999, S_UP_STRIVE}
    [] OTHER -> FALSE

\* parseFloat(match[1]) of the uptime pattern, in thousandths of a percent.
MatchNumber(s) ==
  CASE s = S_UP_9999 -> 99990
    [] s \in {S_UP_999, S_UP_STRIVE} -> 99900
    [] OTHER -> 0

\* weakeningPatterns[i].from / .to tested on one sentence.
WeakFrom(i, s) ==
  CASE i = 1 -> s = S_DNS
    [] i = 2 -> FALSE
    [] i = 3 -> FALSE
    [] i = 4 -> s \in {S_UP_9999, S_UP_999}
    [] OTHER -> FALSE

WeakTo(i, s) ==
  CASE i = 1 -> s = S_MAY
    [] i = 2 -> FALSE
    [] i = 3 -> FALSE
    [] i = 4 -> s = S_UP_STRIVE
    [] OTHER -> FALSE

Range(f) == {f[x] : x \in DOMAIN f}

\* ClaimExtractor.detectWeakening; a snippet is a sequence of sentences.
detectWeakening(oldSnippet, newSnippet) ==
  \E i \in 1..4 :
    /\ \E s \in Range(oldSnippet) : WeakFrom(i, s)
    /\ \E s \in Range(newSnippet) : WeakTo(i, s)

\* ClaimExtractor.detectNumericChange; a meta value of 0 is "no value".
detectNumericChange(oldValue, newValue) ==
  IF oldValue = 0 \/ newValue = 0
  THEN [changed |-> FALSE, decreased |-> FALSE]
  ELSE [changed |-> oldValue # newValue, decreased |-> newValue < oldValue]

\* createHash('sha256').update(x).digest('hex'): collision-free on the model's texts.
Sha256(x) == <<"sha256", x>>

\* ClaimExtractor.expandSnippet on the full-content chunk: the whole (cleaned)
\* text when it has at most 500 characters, else the window around the match.
expandSnippet(page, idx) ==
  IF page.len > LongText THEN <<page.sents[idx]>> ELSE page.sents

FirstMatch(k, page) ==
  LET hits == {n \in DOMAIN page.sents : RegexMatches(k, page.sents[n])}
  IN IF hits = {} THEN 0 ELSE CHOOSE n \in hits : \A m \in hits : n <= m

ExtractedClaim(k, page) ==
  LET idx == FirstMatch(k, page)
  IN [claimType |-> PatternType(k),
      normalizedKey |-> k,
      polarity |-> PatternPolarity(k),
      rawTextSnippet |-> expandSnippet(page, idx),
      value |-> IF PatternExtractNumber(k) THEN MatchNumber(page.sents[idx]) ELSE 0]

RECURSIVE ExtractFrom(_, _)
ExtractFrom(n, page) ==
  IF n > Len(PatternOrder) THEN <<>>
  ELSE LET k == PatternOrder[n]
       IN IF FirstMatch(k, page) = 0 THEN ExtractFrom(n + 1, page)
          ELSE <<ExtractedClaim(k, page)>> \o ExtractFrom(n + 1, page)

\* ClaimExtractor.extract followed by deduplicateClaims: every chunk after the
\* full content carries the same confidence, so the first match of a pattern in
\* the full content is the representative that is kept.
extract(page) == ExtractFrom(1, page)

ExtractedKeys(cs) == {cs[n].normalizedKey : n \in DOMAIN cs}

Page(sents, len, pdfs) == [sents |-> sents, len |-> len, pdfs |-> pdfs]


(***************************************************************************)
(* State.                                                                  *)
(***************************************************************************)
VARIABLES
  company,        \* the Company row: [riskScore]
  crawlTargets,   \* CrawlTarget rows: [Targets -> [lastHash]]
  claims,         \* Claim rows, in insertion order (the index is the _id)
  claimVersions,  \* ClaimVersion rows, in insertion order
  changeEvents,   \* ChangeEvent rows, in insertion order
  crawlRuns,      \* CrawlRun rows, in insertion order
  evidence,       \* Evidence rows, in insertion order
  crawlQueue,     \* jobs of the crawl_target queue (any state, until removed)
  evidenceQueue,  \* jobs of the process_evidence queue
  clock,          \* wall clock in ms, read by new Date() / Date.now(); it has
                  \* advanced whenever a pass starts
  run,            \* per runner: position in the crawl code and its local variables
  web,            \* per target, which page of the scenario the site serves now
  passes,         \* crawl passes started so far
  adds,           \* enqueue calls made so far
  hours,          \* idle hours passed so far
  extractedOn,    \* history: per target, the keys that extractions on it returned
  baseline,       \* history: the rows a worker crawl left, kept to compare the
                  \* service crawl of the same store and page with (<<>>: none)
  schedulerLock,  \* whether the Redis key scheduler:crawl:lock exists
  replicas,       \* per scheduler replica: position in scheduleCrawls
  cycle,          \* history of the current cron instant: whether one has fired,
                  \* which replicas enqueued since, and whether a tick that held
                  \* the lock has failed without a batch enqueued since
  shutdown        \* the worker process: the signal it got, the position of its
                  \* handler, its two workers and its queue connections

store == <<company, crawlTargets, claims, claimVersions, changeEvents, crawlRuns, evidence>>
queues == <<crawlQueue, evidenceQueue>>
counters == <<passes, adds, hours>>
history == <<web, extractedOn, baseline>>
processes == <<schedulerLock, replicas, cycle, shutdown>>
vars == <<company, crawlTargets, claims, claimVersions, changeEvents, crawlRuns, evidence,
          crawlQueue, evidenceQueue, clock, run, web, passes, adds, hours, extractedOn,
          baseline,
          schedulerLock, replicas, cycle, shutdown>>

NoClaim ==
  [id |-> 0, claimType |-> "", normalizedKey |-> "", currentStatus |-> "",
   currentSnippet |-> NoSnippet, currentSourceUrl |-> ""]

NoPage == Page(<<>>, 0, <<>>)

Idle ==
  [pc |-> "idle", target |-> "", job |-> 0,
   company |-> [riskScore |-> 0], tdoc |-> [lastHash |-> NoHash], crawlRun |-> 0,
   content |-> NoPage, extracted |-> <<>>, i |-> 0, now |-> 0,
   claim |-> NoClaim, lastVersion |-> 0, eventType |-> "", severity |-> "",
   event |-> 0, ret |-> "", existing |-> <<>>, j |-> 0, k |-> 0, ev |-> 0,
   todo |-> <<>>]

Init ==
  /\ company = [riskScore |-> 0]
  /\ crawlTargets = [t \in Targets |-> [lastHash |-> NoHash]]
  /\ claims = <<>>
  /\ claimVersions = <<>>
  /\ changeEvents = <<>>
  /\ crawlRuns = <<>>
  /\ evidence = <<>>
  /\ crawlQueue = <<>>
  /\ evidenceQueue = <<>>
  /\ clock = 0
  /\ run = [r \in Runners |-> Idle]
  /\ web = [t \in Targets |-> 1]
  /\ passes = 0
  /\ adds = 0
  /\ hours = 0
  /\ extractedOn = [t \in Targets |-> {}]
  /\ baseline = <<>>
  /\ schedulerLock = FALSE
  /\ replicas = [s \in Replicas |-> [pc |-> "idle"]]
  /\ cycle = [fired |-> FALSE, enqueued |-> {}, wedged |-> "no"]
  /\ shutdown = [signal |-> "", handler |-> "", crawlWorker |-> "running",
                 evidenceWorker |-> "running", queues |-> "open"]

Set(r, rec) == run' = [run EXCEPT ![r] = rec]
At(r, label) == run[r].pc = label
Goto(r, label) == Set(r, [run[r] EXCEPT !.pc = label])

(***************************************************************************)
(* The crawl_target queue (BullMQ).  A job lives in the queue, in one of   *)
(* the states waiting / active / delayed / completed / failed, until the   *)
(* retention rule removes it.                                              *)
(***************************************************************************)
PendingStates == {"waiting", "active", "delayed"}

JobsWithId(q, jobId) == {n \in DOMAIN q : q[n].jobId = jobId}

NewJob(jobId, t) ==
  [jobId |-> jobId, target |-> t, state |-> "waiting", attemptsMade |-> 0,
   finishedOn |-> NoTime, runs |-> 0, ignored |-> FALSE]

\* Queue.add without the look-up of the job id.
QueueAddAlways(q, jobId, t) == Append(q, NewJob(jobId, t))

\* Queue.add(name, data, {jobId}): a job id that is already in the queue, in
\* whatever state, is not added again.  (runs and ignored are history: how often
\* the processor was called for the job, and whether an add found it pending.)
QueueAdd(q, jobId, t) ==
  IF JobsWithId(q, jobId) # {}
  THEN [n \in DOMAIN q |->
          IF q[n].jobId = jobId /\ q[n].state \in PendingStates
          THEN [q[n] EXCEPT !.ignored = TRUE] ELSE q[n]]
  ELSE Append(q, NewJob(jobId, t))

RECURSIVE QueueAddBulk(_, _)
QueueAddBulk(q, ts) ==
  IF ts = {} THEN q
  ELSE LET t == CHOOSE x \in ts : TRUE
       IN QueueAddBulk(QueueAdd(q, JobKey(t), t), ts \ {t})

\* enqueueCrawlTarget, called once per target by POST /api/crawl/run and
\* POST /api/companies.
enqueueCrawlTarget(t) ==
  /\ adds < MaxAdds
  /\ adds' = adds + 1
  /\ crawlQueue' = QueueAdd(crawlQueue, JobKey(t), t)
  /\ UNCHANGED <<processes, store, evidenceQueue, clock, run, passes, hours, history>>

\* enqueueCrawlTargetsBatch, called by scheduleCrawls with every target.
enqueueCrawlTargetsBatch ==
  /\ adds < MaxAdds
  /\ adds' = adds + 1
  /\ crawlQueue' = QueueAddBulk(crawlQueue, Targets)
  /\ UNCHANGED <<processes, store, evidenceQueue, clock, run, passes, hours, history>>

SetJob(n, state, failed) ==
  crawlQueue' = [crawlQueue EXCEPT ![n] =
                   [@ EXCEPT !.state = state,
                             !.attemptsMade = IF failed THEN @ + 1 ELSE @,
                             !.finishedOn = IF state = "delayed" THEN @ ELSE clock]]

\* The worker's processor returned: the job is completed.
JobCompleted(r) ==
  IF r \in Workers
  THEN SetJob(run[r].job, "completed", FALSE)
  ELSE UNCHANGED crawlQueue

\* The processor threw and the job has no attempts option: it is failed at once.
JobThrewOnce(r) ==
  IF r \in Workers
  THEN SetJob(run[r].job, "failed", TRUE)
  ELSE UNCHANGED crawlQueue

\* The worker's processor threw: retry with backoff while attempts are left,
\* else the job is failed.
JobThrew(r) ==
  IF r \in Workers
  THEN LET n == run[r].job
       IN SetJob(n, IF crawlQueue[n].attemptsMade + 1 < Attempts THEN "delayed" ELSE "failed",
                 TRUE)
  ELSE UNCHANGED crawlQueue

\* The backoff delay of a delayed job is over.
PromoteDelayed ==
  \E n \in DOMAIN crawlQueue :
    /\ crawlQueue[n].state = "delayed"
    /\ crawlQueue' = [crawlQueue EXCEPT ![n].state = "waiting"]
    /\ UNCHANGED <<processes, store, evidenceQueue, clock, run, counters, history>>

RemoveAt(q, n) == [m \in 1..(Len(q) - 1) |-> IF m < n THEN q[m] ELSE q[m + 1]]

\* removeOnComplete: {age: 3600} / removeOnFail: {age: 86400}, in ms
KeepMs(state) == IF state = "completed" THEN HourMs ELSE 24 * HourMs

\* A finished job is dropped once it is older than its retention age.  No runner
\* holds the index of a finished job.
RemoveFinished ==
  \E n \in DOMAIN crawlQueue :
    /\ crawlQueue[n].state \in {"completed", "failed"}
    /\ clock >= crawlQueue[n].finishedOn + KeepMs(crawlQueue[n].state)
    /\ crawlQueue' = RemoveAt(crawlQueue, n)
    /\ run' = [r \in Runners |->
                 IF run[r].job > n THEN [run[r] EXCEPT !.job = @ - 1] ELSE run[r]]
    /\ UNCHANGED <<processes, store, evidenceQueue, clock, counters, history>>


(***************************************************************************)
(* A crawl pass: processCrawlJob (worker) and CrawlService.crawlTarget     *)
(* (service).  The two bodies are the same code up to the evidence step.   *)
(***************************************************************************)
InPass(r) == run[r].target # ""

\* The pass of runner r ends: a worker's job completes or throws, the service
\* goes on with its next target (crawlCompany catches per target).
EndPass(r, how) ==
  /\ run' = [run EXCEPT ![r] =
               IF r \in Workers THEN Idle
               ELSE [Idle EXCEPT !.pc = "svcNext", !.todo = run[r].todo,
                                 !.company = run[r].company,
                                 !.crawlRun = run[r].crawlRun]]
  /\ IF how = "threw" THEN JobThrew(r) ELSE JobCompleted(r)

\* The slots of the worker are interchangeable: a job goes to the first free one.
FirstFree(r) == r = "w1" \/ ~At("w1", "idle")

\* Worker: the processor is called with a waiting job.
TakeJob(r) ==
  /\ r \in Workers
  /\ shutdown.crawlWorker = "running"
  /\ At(r, "idle")
  /\ FirstFree(r)
  /\ passes < MaxPasses
  /\ \E n \in DOMAIN crawlQueue :
       /\ crawlQueue[n].state = "waiting"
       /\ crawlQueue' = [crawlQueue EXCEPT ![n].state = "active", ![n].runs = @ + 1]
       /\ Set(r, [Idle EXCEPT !.pc = "loadCompany",
                              !.target = crawlQueue[n].target, !.job = n])
  /\ passes' = passes + 1
  /\ clock' = clock + 1
  /\ UNCHANGED <<processes, store, evidenceQueue, adds, hours, history>>

\* A findById that returns a document: the row has not been deleted.
CompanyFound == DOMAIN company # {}
TargetFound(t) == t \in DOMAIN crawlTargets
NoRow ==
  [pdfUrl |-> "", status |-> "", inline |-> FALSE, extractedFields |-> NoFields,
   error |-> "", processedAt |-> NoTime]
EvidenceFound(id) == evidence[id] # NoRow

\* Company.findById
LoadCompany(r) ==
  /\ At(r, "loadCompany")
  /\ CompanyFound
  /\ Set(r, [run[r] EXCEPT !.pc = "loadTarget", !.company = company])
  /\ UNCHANGED <<processes, store, queues, clock, counters, history>>

\* CrawlTarget.findById
LoadTarget(r) ==
  /\ At(r, "loadTarget")
  /\ TargetFound(run[r].target)
  /\ Set(r, [run[r] EXCEPT !.pc = "findRun", !.tdoc = crawlTargets[run[r].target]])
  /\ UNCHANGED <<processes, store, queues, clock, counters, history>>

RunningRuns == {n \in DOMAIN crawlRuns : crawlRuns[n].status = "running"}

\* CrawlRun.findOne({companyId, status: 'running'})
FindRun(r) ==
  /\ At(r, "findRun")
  /\ IF RunningRuns = {}
     THEN Goto(r, "createRun")
     ELSE Set(r, [run[r] EXCEPT !.pc = "fetch",
                                !.crawlRun = CHOOSE n \in RunningRuns :
                                               \A m \in RunningRuns : n <= m])
  /\ UNCHANGED <<processes, store, queues, clock, counters, history>>

\* CrawlRun.create({companyId, startedAt, status: 'running'})
CreateRun(r) ==
  /\ At(r, "createRun")
  /\ crawlRuns' = Append(crawlRuns, [status |-> "running"])
  /\ Set(r, [run[r] EXCEPT !.pc = "fetch", !.crawlRun = Len(crawlRuns) + 1])
  /\ UNCHANGED <<processes, company, crawlTargets, claims, claimVersions, changeEvents, evidence,
                 queues, clock, counters, history>>

\* firecrawlClient.scrape / demoAdapter.fetchDemoContent: the page the site
\* serves for the target now.  site[t] is the sequence of pages the target shows
\* over time.
Fetch(r, site) ==
  /\ At(r, "fetch")
  /\ Set(r, [run[r] EXCEPT !.pc = "digest",
                           !.content = site[run[r].target][web[run[r].target]]])
  /\ UNCHANGED <<processes, store, queues, clock, counters, history>>

\* The company edits the page of a target.
SiteChanges(site, t) ==
  /\ web[t] < Len(site[t])
  /\ web' = [web EXCEPT ![t] = @ + 1]
  /\ UNCHANGED <<processes, store, queues, clock, run, counters, extractedOn, baseline>>

\* The scrape throws (timeout, HTTP error).
FetchThrows(r) ==
  /\ At(r, "fetch")
  /\ EndPass(r, "threw")
  /\ UNCHANGED <<processes, store, evidenceQueue, clock, counters, history>>

\* A store call outside a try block throws (connection lost, write rejected):
\* the error leaves the pass.
StoreThrows(r, points) ==
  /\ run[r].pc \in points
  /\ EndPass(r, "threw")
  /\ UNCHANGED <<processes, store, evidenceQueue, clock, counters, history>>

\* The digest check without the comparison.
SameDigestNever(tdoc, content) == FALSE

\* target.lastHash && target.lastHash === contentHash
SameDigest(tdoc, content) ==
  tdoc.lastHash # NoHash /\ tdoc.lastHash = Sha256(content)

\* The digest check; on a changed digest, claimExtractor.extract.
Digest(r) ==
  /\ At(r, "digest")
  /\ IF SameDigest(run[r].tdoc, run[r].content)
     THEN /\ Goto(r, "noChanges")
          /\ UNCHANGED extractedOn
     ELSE LET cs == extract(run[r].content)
          IN /\ Set(r, [run[r] EXCEPT !.pc = IF cs = <<>> THEN "sweepFind" ELSE "findClaim",
                                      !.extracted = cs, !.i = 1])
             /\ extractedOn' = [extractedOn EXCEPT ![run[r].target] = @ \cup ExtractedKeys(cs)]
  /\ UNCHANGED <<processes, store, queues, clock, counters, web, baseline>>

\* emitCrawlProgress({stage: 'no_changes'}); return
NoChanges(r) ==
  /\ At(r, "noChanges")
  /\ EndPass(r, "no_changes")
  /\ UNCHANGED <<processes, store, evidenceQueue, clock, counters, history>>


(***************************************************************************)
(* processClaimChange / CrawlService.processClaim                          *)
(***************************************************************************)
Cur(r) == run[r].extracted[run[r].i]

ClaimDoc(n) ==
  [id |-> n, claimType |-> claims[n].claimType, normalizedKey |-> claims[n].normalizedKey,
   currentStatus |-> claims[n].currentStatus, currentSnippet |-> claims[n].currentSnippet,
   currentSourceUrl |-> claims[n].currentSourceUrl]

ClaimsMatching(type, key) ==
  {n \in DOMAIN claims : claims[n].claimType = type /\ claims[n].normalizedKey = key}

\* The locals of processClaimChange and of one round of the removal loop are
\* gone when it returns.
Return(me) ==
  [me EXCEPT !.now = 0, !.claim = NoClaim, !.lastVersion = 0, !.eventType = "",
             !.severity = "", !.event = 0, !.ret = ""]

\* The for-loop over extractedClaims goes on, or ends and checkRemovedClaims starts.
NextClaim(me) ==
  IF me.i < Len(me.extracted)
  THEN [Return(me) EXCEPT !.pc = "findClaim", !.i = @ + 1]
  ELSE [Return(me) EXCEPT !.pc = "sweepFind", !.i = 0]

\* The for-loop over existingClaims goes on, or ends.
NextVictim(me) ==
  IF me.j < Len(me.existing)
  THEN [Return(me) EXCEPT !.pc = "sweepSave", !.j = @ + 1]
  ELSE [Return(me) EXCEPT !.pc = "saveTarget", !.j = 0, !.existing = <<>>]

\* Where the code goes on after updateRiskScore / sendCriticalAlert.
Resume(me) == IF me.ret = "claim" THEN NextClaim(me) ELSE NextVictim(me)

\* const now = new Date(); Claim.findOne({companyId, claimType, normalizedKey})
FindClaim(r) ==
  /\ At(r, "findClaim")
  /\ LET hits == ClaimsMatching(Cur(r).claimType, Cur(r).normalizedKey)
     IN IF hits = {}
        THEN Set(r, [run[r] EXCEPT !.pc = "createClaim", !.now = clock, !.claim = NoClaim])
        ELSE Set(r, [run[r] EXCEPT !.pc = "findLast", !.now = clock,
                                   !.claim = ClaimDoc(CHOOSE n \in hits :
                                                        \A m \in hits : n <= m)])
  /\ UNCHANGED <<processes, store, queues, clock, counters, history>>

\* The collection without the unique index.
ClaimIndexAbsent(type, key) == TRUE

\* ClaimSchema.index({companyId, claimType, normalizedKey}, {unique: true}):
\* whether an insert of (type, key) is accepted.
ClaimIndexAccepts(type, key) == ClaimsMatching(type, key) = {}

\* Claim.create: the unique index rejects a second row (duplicate key error).
CreateClaim(r) ==
  /\ At(r, "createClaim")
  /\ IF ClaimIndexAccepts(Cur(r).claimType, Cur(r).normalizedKey)
     THEN /\ claims' = Append(claims,
                 [claimType |-> Cur(r).claimType, normalizedKey |-> Cur(r).normalizedKey,
                  currentStatus |-> "ACTIVE",
                  lastSeenAt |-> run[r].now, currentSnippet |-> Cur(r).rawTextSnippet,
                  currentSourceUrl |-> Url(run[r].target)])
          /\ Set(r, [run[r] EXCEPT !.pc = "createVersion",
                                   !.claim = [id |-> Len(claims) + 1,
                                              claimType |-> Cur(r).claimType,
                                              normalizedKey |-> Cur(r).normalizedKey,
                                              currentStatus |-> "ACTIVE",
                                              currentSnippet |-> Cur(r).rawTextSnippet,
                                              currentSourceUrl |-> Url(run[r].target)]])
          /\ UNCHANGED crawlQueue
     ELSE /\ EndPass(r, "threw")
          /\ UNCHANGED claims
  /\ UNCHANGED <<processes, company, crawlTargets, claimVersions, changeEvents, crawlRuns, evidence,
                 evidenceQueue, clock, counters, history>>

\* A version whose polarity is read off the text: a snippet that grew a
\* "may" clause is recorded as positive.
NewVersionByText(r) ==
  [claimId |-> run[r].claim.id, snippet |-> Cur(r).rawTextSnippet,
   sourceUrl |-> Url(run[r].target), contentHash |-> Sha256(Cur(r).rawTextSnippet),
   seenAt |-> run[r].now,
   polarity |-> IF \E n \in DOMAIN Cur(r).rawTextSnippet : Cur(r).rawTextSnippet[n] = S_MAY
                THEN "positive" ELSE Cur(r).polarity,
   value |-> Cur(r).value]

\* ClaimVersion.create({claimId, snippet, sourceUrl, contentHash, seenAt, polarity, meta})
NewVersion(r) ==
  [claimId |-> run[r].claim.id, snippet |-> Cur(r).rawTextSnippet,
   sourceUrl |-> Url(run[r].target), contentHash |-> Sha256(Cur(r).rawTextSnippet),
   seenAt |-> run[r].now, polarity |-> Cur(r).polarity, value |-> Cur(r).value]

\* ClaimVersion.create of a new claim
CreateVersion(r) ==
  /\ At(r, "createVersion")
  /\ claimVersions' = Append(claimVersions, NewVersion(r))
  /\ Goto(r, "createAdded")
  /\ UNCHANGED <<processes, company, crawlTargets, claims, changeEvents, crawlRuns, evidence,
                 queues, clock, counters, history>>

NewEvent(r, type, key, eventType, severity, old, new, at) ==
  [claimType |-> type, normalizedKey |-> key, eventType |-> eventType,
   severity |-> severity, oldSnippet |-> old, newSnippet |-> new,
   sourceUrl |-> Url(run[r].target), detectedAt |-> at, emailedAt |-> NoTime]

\* ChangeEvent.create({eventType: 'ADDED', severity: 'Info', newSnippet}) of a new claim
CreateAdded(r) ==
  /\ At(r, "createAdded")
  /\ changeEvents' = Append(changeEvents,
        NewEvent(r, Cur(r).claimType, Cur(r).normalizedKey, "ADDED", "Info",
                 NoSnippet, Cur(r).rawTextSnippet, run[r].now))
  /\ Set(r, NextClaim(run[r]))
  /\ UNCHANGED <<processes, company, crawlTargets, claims, claimVersions, crawlRuns, evidence,
                 queues, clock, counters, history>>

VersionsOf(id) == {n \in DOMAIN claimVersions : claimVersions[n].claimId = id}

\* ClaimVersion.findOne({claimId}).sort({seenAt: -1}): a version of the greatest
\* seenAt (the store may return any of several with the same seenAt); 0 when the
\* claim has none.
LatestVersions(id) ==
  IF VersionsOf(id) = {} THEN {0}
  ELSE {n \in VersionsOf(id) :
          \A m \in VersionsOf(id) : claimVersions[m].seenAt <= claimVersions[n].seenAt}

\* !lastVersion || lastVersion.contentHash !== contentHash
VersionChanged(last, hash) ==
  last = 0 \/ claimVersions[last].contentHash # hash

FindLast(r) ==
  /\ At(r, "findLast")
  /\ \E last \in LatestVersions(run[r].claim.id) :
        Set(r, [run[r] EXCEPT !.lastVersion = last,
                              !.pc = IF VersionChanged(last, Sha256(Cur(r).rawTextSnippet))
                                     THEN "appendVersion" ELSE "touchClaim"])
  /\ UNCHANGED <<processes, store, queues, clock, counters, history>>

\* A classifier that tests the numbers before the weakening patterns.
ClassifyNumericFirst(oldSnippet, newSnippet, lastValue, newValue, lastPolarity, newPolarity) ==
  IF newValue # 0 /\ lastValue # 0 /\ detectNumericChange(lastValue, newValue).changed
  THEN [eventType |-> "NUMBER_CHANGED",
        severity |-> IF detectNumericChange(lastValue, newValue).decreased
                     THEN "Medium" ELSE "Info"]
  ELSE IF detectWeakening(oldSnippet, newSnippet)
  THEN [eventType |-> "WEAKENED", severity |-> "Critical"]
  ELSE IF lastPolarity # newPolarity
  THEN [eventType |-> "REVERSED", severity |-> "Critical"]
  ELSE [eventType |-> "ADDED", severity |-> "Info"]

\* The classifier of processClaimChange: the first branch that fires.
Classify(oldSnippet, newSnippet, lastValue, newValue, lastPolarity, newPolarity) ==
  IF detectWeakening(oldSnippet, newSnippet)
  THEN [eventType |-> "WEAKENED", severity |-> "Critical"]
  ELSE IF newValue # 0 /\ lastValue # 0
  THEN LET d == detectNumericChange(lastValue, newValue)
       IN IF d.changed
          THEN [eventType |-> "NUMBER_CHANGED",
                severity |-> IF d.decreased THEN "Medium" ELSE "Info"]
          ELSE [eventType |-> "ADDED", severity |-> "Info"]
  ELSE IF lastPolarity # newPolarity
  THEN [eventType |-> "REVERSED", severity |-> "Critical"]
  ELSE [eventType |-> "ADDED", severity |-> "Info"]

\* ClaimVersion.create of an existing claim, then the classifier.  With no last
\* version (a claim left without one) every branch after detectWeakening reads
\* a field of null and throws.
AppendVersion(r) ==
  /\ At(r, "appendVersion")
  /\ claimVersions' = Append(claimVersions, NewVersion(r))
  /\ LET old == run[r].claim.currentSnippet
         new == Cur(r).rawTextSnippet
         last == run[r].lastVersion
     IN IF last = 0 /\ ~detectWeakening(old, new)
        THEN EndPass(r, "threw")
        ELSE LET c == IF last = 0
                      THEN [eventType |-> "WEAKENED", severity |-> "Critical"]
                      ELSE Classify(old, new, claimVersions[last].value, Cur(r).value,
                                    claimVersions[last].polarity, Cur(r).polarity)
             IN /\ Set(r, [run[r] EXCEPT !.pc = "createEvent", !.eventType = c.eventType,
                                         !.severity = c.severity])
                /\ UNCHANGED crawlQueue
  /\ UNCHANGED <<processes, company, crawlTargets, claims, changeEvents, crawlRuns, evidence,
                 evidenceQueue, clock, counters, history>>

\* The payload of the event of a changed claim: oldSnippet and newSnippet.
ChangePayload(eventType, old, new) == [oldSnippet |-> old, newSnippet |-> new]

\* ChangeEvent.create({eventType, severity, oldSnippet, newSnippet})
CreateEvent(r) ==
  /\ At(r, "createEvent")
  /\ LET p == ChangePayload(run[r].eventType, run[r].claim.currentSnippet,
                            Cur(r).rawTextSnippet)
     IN changeEvents' = Append(changeEvents,
           NewEvent(r, Cur(r).claimType, Cur(r).normalizedKey, run[r].eventType,
                    run[r].severity, p.oldSnippet, p.newSnippet, run[r].now))
  /\ Set(r, [run[r] EXCEPT !.pc = "saveClaim", !.event = Len(changeEvents) + 1])
  /\ UNCHANGED <<processes, company, crawlTargets, claims, claimVersions, crawlRuns, evidence,
                 queues, clock, counters, history>>

\* claim.currentSnippet = ...; claim.currentSourceUrl = ...; claim.lastSeenAt = now;
\* claim.save() writes the fields whose value differs from the loaded document.
SaveClaim(r) ==
  /\ At(r, "saveClaim")
  /\ claims' = [claims EXCEPT ![run[r].claim.id] =
                  [@ EXCEPT !.currentSnippet =
                               IF Cur(r).rawTextSnippet # run[r].claim.currentSnippet
                               THEN Cur(r).rawTextSnippet ELSE @,
                            !.currentSourceUrl =
                               IF Url(run[r].target) # run[r].claim.currentSourceUrl
                               THEN Url(run[r].target) ELSE @,
                            !.lastSeenAt = run[r].now]]
  /\ Set(r, [run[r] EXCEPT !.pc = "risk", !.ret = "claim"])
  /\ UNCHANGED <<processes, company, crawlTargets, claimVersions, changeEvents, crawlRuns, evidence,
                 queues, clock, counters, history>>

\* claim.lastSeenAt = now; claim.save()
TouchClaim(r) ==
  /\ At(r, "touchClaim")
  /\ claims' = [claims EXCEPT ![run[r].claim.id].lastSeenAt = run[r].now]
  /\ Set(r, NextClaim(run[r]))
  /\ UNCHANGED <<processes, company, crawlTargets, claimVersions, changeEvents, crawlRuns, evidence,
                 queues, clock, counters, history>>


(***************************************************************************)
(* updateRiskScore and sendCriticalAlert                                   *)
(***************************************************************************)
\* Increments that do not look at the severity.
ScoreIncreaseAnySeverity(eventType, severity) ==
  IF eventType \in {"REMOVED", "WEAKENED"} THEN 40
  ELSE IF eventType = "NUMBER_CHANGED" THEN 10
  ELSE IF eventType = "REVERSED" THEN 30
  ELSE 0

ScoreIncrease(eventType, severity) ==
  IF eventType = "REMOVED" /\ severity = "Critical" THEN 40
  ELSE IF eventType = "WEAKENED" /\ severity = "Critical" THEN 40
  ELSE IF eventType = "NUMBER_CHANGED" /\ severity = "Medium" THEN 10
  ELSE IF eventType = "REVERSED" THEN 30
  ELSE 0

Min(a, b) == IF a < b THEN a ELSE b

\* Math.min(100, company.riskScore + scoreIncrease)
RaisedScore(score, inc) == Min(MaxRisk, score + inc)

\* updateRiskScore: the runner's own Company document is raised and saved
\* (save() writes riskScore when the assignment changed it).
UpdateRisk(r) ==
  /\ At(r, "risk")
  /\ LET inc == ScoreIncrease(run[r].eventType, run[r].severity)
         new == RaisedScore(run[r].company.riskScore, inc)
         me == [run[r] EXCEPT !.company.riskScore = IF inc > 0 THEN new ELSE @]
     IN /\ company' = IF inc > 0 /\ new # run[r].company.riskScore
                      THEN [company EXCEPT !.riskScore = new] ELSE company
        /\ Set(r, IF run[r].severity = "Critical"
                  THEN [me EXCEPT !.pc = "alertCount"] ELSE Resume(me))
  /\ UNCHANGED <<processes, crawlTargets, claims, claimVersions, changeEvents, crawlRuns, evidence,
                 queues, clock, counters, history>>

\* ChangeEvent.countDocuments({companyId, severity: 'Critical', emailedAt: {$gte: oneHourAgo}})
RecentAlerts(at) ==
  Cardinality({n \in DOMAIN changeEvents :
                 /\ changeEvents[n].severity = "Critical"
                 /\ changeEvents[n].emailedAt # NoTime
                 /\ changeEvents[n].emailedAt >= at - HourMs})

\* recentAlerts >= 5
RateLimited(recentAlerts) == recentAlerts >= RateLimit

\* sendCriticalAlert up to the rate-limit test
AlertCount(r) ==
  /\ At(r, "alertCount")
  /\ Set(r, IF RateLimited(RecentAlerts(clock)) THEN Resume(run[r])
            ELSE [run[r] EXCEPT !.pc = "alertSend"])
  /\ UNCHANGED <<processes, store, queues, clock, counters, history>>

\* User.findById(company.userId); sendAlertEmail(...) returns
AlertSend(r) ==
  /\ At(r, "alertSend")
  /\ Goto(r, "alertSave")
  /\ UNCHANGED <<processes, store, queues, clock, counters, history>>

\* event.emailedAt = new Date(); event.save()
AlertSave(r) ==
  /\ At(r, "alertSave")
  /\ changeEvents' = [changeEvents EXCEPT ![run[r].event].emailedAt = clock]
  /\ Set(r, Resume(run[r]))
  /\ UNCHANGED <<processes, company, crawlTargets, claims, claimVersions, crawlRuns, evidence,
                 queues, clock, counters, history>>

(***************************************************************************)
(* checkRemovedClaims                                                      *)
(***************************************************************************)
RECURSIVE SeqOfSet(_)
SeqOfSet(S) ==
  IF S = {} THEN <<>>
  ELSE LET n == CHOOSE x \in S : \A y \in S : x <= y
       IN <<n>> \o SeqOfSet(S \ {n})

\* The query without the filter on the status.
ClaimsOfAnyStatus(url) ==
  {n \in DOMAIN claims : claims[n].currentSourceUrl = url}

\* Claim.find({companyId, currentSourceUrl: target.url, currentStatus: 'ACTIVE'})
ActiveClaimsOf(url) ==
  {n \in DOMAIN claims :
     claims[n].currentSourceUrl = url /\ claims[n].currentStatus = "ACTIVE"}

\* The removal loop without the test of the extracted keys.
IsRemovedAlways(doc, extractedKeys) == TRUE

\* if (!extractedKeys.has(claim.normalizedKey))
IsRemoved(doc, extractedKeys) == doc.normalizedKey \notin extractedKeys

\* The claims of the query result the loop body runs for.
Victims(r) ==
  LET ids == SeqOfSet(ActiveClaimsOf(Url(run[r].target)))
      docs == [n \in DOMAIN ids |-> ClaimDoc(ids[n])]
  IN SelectSeq(docs, LAMBDA d : IsRemoved(d, ExtractedKeys(run[r].extracted)))

SweepFind(r) ==
  /\ At(r, "sweepFind")
  /\ LET vs == Victims(r)
     IN Set(r, [run[r] EXCEPT !.existing = vs, !.j = 1,
                              !.pc = IF vs = <<>> THEN "saveTarget" ELSE "sweepSave"])
  /\ UNCHANGED <<processes, store, queues, clock, counters, history>>

Victim(r) == run[r].existing[run[r].j]

\* The sweep without the write of the status.
SweepSaveSkipped(r) ==
  /\ At(r, "sweepSave")
  /\ Goto(r, "sweepEvent")
  /\ UNCHANGED <<processes, store, queues, clock, counters, history>>

\* claim.currentStatus = 'REMOVED'; claim.save()
SweepSave(r) ==
  /\ At(r, "sweepSave")
  /\ claims' = [claims EXCEPT ![Victim(r).id].currentStatus = "REMOVED"]
  /\ Goto(r, "sweepEvent")
  /\ UNCHANGED <<processes, company, crawlTargets, claimVersions, changeEvents, crawlRuns, evidence,
                 queues, clock, counters, history>>

\* Every removal rated as one of a compliance claim.
RemovedSeverityFlat(claimType) == "Critical"

\* claim.claimType === 'compliance' ? 'Critical' : 'Medium'
RemovedSeverity(claimType) == IF claimType = "compliance" THEN "Critical" ELSE "Medium"

\* ChangeEvent.create({eventType: 'REMOVED', severity, oldSnippet, detectedAt: new Date()})
SweepEvent(r) ==
  /\ At(r, "sweepEvent")
  /\ changeEvents' = Append(changeEvents,
        NewEvent(r, Victim(r).claimType, Victim(r).normalizedKey, "REMOVED",
                 RemovedSeverity(Victim(r).claimType), Victim(r).currentSnippet,
                 NoSnippet, clock))
  /\ Set(r, [run[r] EXCEPT !.pc = "risk", !.ret = "sweep", !.eventType = "REMOVED",
                           !.severity = RemovedSeverity(Victim(r).claimType),
                           !.event = Len(changeEvents) + 1])
  /\ UNCHANGED <<processes, company, crawlTargets, claims, claimVersions, crawlRuns, evidence,
                 queues, clock, counters, history>>

\* The digest left for after the fan-out: the stored lastHash stays as it is.
SaveTargetLater(r) ==
  /\ At(r, "saveTarget")
  /\ Set(r, [run[r] EXCEPT !.pc = IF run[r].content.pdfs = <<>> THEN "saveRun" ELSE "evFind",
                           !.k = 1])
  /\ UNCHANGED <<processes, store, queues, clock, counters, history>>

\* target.lastHash = contentHash; target.save()
SaveTarget(r) ==
  /\ At(r, "saveTarget")
  /\ crawlTargets' = [crawlTargets EXCEPT ![run[r].target].lastHash = Sha256(run[r].content)]
  /\ Set(r, [run[r] EXCEPT !.pc = IF run[r].content.pdfs = <<>> THEN "saveRun" ELSE "evFind",
                           !.k = 1])
  /\ UNCHANGED <<processes, company, claims, claimVersions, changeEvents, crawlRuns, evidence,
                 queues, clock, counters, history>>

\* A last write that closes the run: crawlRun.status = 'completed'.
SaveRunCompletes(r) ==
  /\ At(r, "saveRun")
  /\ EndPass(r, "crawled")
  /\ crawlRuns' = [crawlRuns EXCEPT ![run[r].crawlRun].status = "completed"]
  /\ UNCHANGED <<processes, company, crawlTargets, claims, claimVersions, changeEvents,
                 evidence, evidenceQueue, clock, counters, history>>

\* crawlRun.pagesCrawled++; crawlRun.save() writes the run's counters (not part
\* of the state here; the status stays as it is): the worker's job is done.  In
\* the service the caller counts the page and goes on with the next target.
SaveRun(r) ==
  /\ At(r, "saveRun")
  /\ EndPass(r, "crawled")
  /\ UNCHANGED <<processes, store, evidenceQueue, clock, counters, history>>

(***************************************************************************)
(* extractAndEnqueueEvidence / CrawlService.extractEvidence                *)
(***************************************************************************)
\* matches.slice(0, 3)
PdfMatches(page) == SubSeq(page.pdfs, 1, Min(Len(page.pdfs), MaxPdfs))

NextPdf(me) ==
  IF me.k < Len(PdfMatches(me.content))
  THEN [me EXCEPT !.pc = "evFind", !.k = @ + 1]
  ELSE [me EXCEPT !.pc = "saveRun"]

\* Evidence.findOne({companyId, pdfUrl})
EvFind(r) ==
  /\ At(r, "evFind")
  /\ LET url == PdfMatches(run[r].content)[run[r].k]
     IN Set(r, IF \E n \in DOMAIN evidence : evidence[n].pdfUrl = url
               THEN NextPdf(run[r]) ELSE [run[r] EXCEPT !.pc = "evCreate"])
  /\ UNCHANGED <<processes, store, queues, clock, counters, history>>

\* Evidence.create({companyId, claimType: 'compliance', pdfUrl, status: 'PENDING'});
\* the service starts processEvidence in the background and goes on.
EvCreate(r) ==
  /\ At(r, "evCreate")
  /\ evidence' = Append(evidence,
        [pdfUrl |-> PdfMatches(run[r].content)[run[r].k], status |-> "PENDING",
         inline |-> r \in Services, extractedFields |-> NoFields, error |-> "",
         processedAt |-> NoTime])
  /\ Set(r, IF r \in Workers
            THEN [run[r] EXCEPT !.pc = "evEnqueue", !.ev = Len(evidence) + 1]
            ELSE NextPdf(run[r]))
  /\ UNCHANGED <<processes, company, crawlTargets, claims, claimVersions, changeEvents, crawlRuns,
                 queues, clock, counters, history>>

\* enqueueEvidenceProcessing: jobId evidence-{evidenceId}
EvEnqueue(r) ==
  /\ At(r, "evEnqueue")
  /\ shutdown.queues = "open"
  /\ evidenceQueue' =
       IF \E n \in DOMAIN evidenceQueue : evidenceQueue[n].jobId = <<"evidence", run[r].ev>>
       THEN evidenceQueue
       ELSE Append(evidenceQueue,
                   [jobId |-> <<"evidence", run[r].ev>>, evidenceId |-> run[r].ev,
                    state |-> "waiting", attemptsMade |-> 0, stalled |-> FALSE,
                    pc |-> "", loaded |-> ""])
  /\ Set(r, NextPdf(run[r]))
  /\ UNCHANGED <<processes, store, crawlQueue, clock, counters, history>>

(***************************************************************************)
(* CrawlService.crawlCompany, run inside the API process by the cron job   *)
(* of jobs/crawlScheduler.ts (crawlAllCompanies) and by POST /api/demo/run *)
(***************************************************************************)
TargetOrder == <<"t1", "t2">>

\* cron.schedule(schedule, () => crawlService.crawlAllCompanies()) fires, or the
\* demo route calls crawlService.crawlCompany.
StartService(r) ==
  /\ r \in Services
  /\ At(r, "idle")
  /\ passes < MaxPasses
  /\ Set(r, [Idle EXCEPT !.pc = "svcCreateRun"])
  /\ UNCHANGED <<processes, store, queues, clock, counters, history>>

\* CrawlRun.create({companyId, startedAt, status: 'running'})
SvcCreateRun(r) ==
  /\ At(r, "svcCreateRun")
  /\ crawlRuns' = Append(crawlRuns, [status |-> "running"])
  /\ Set(r, [run[r] EXCEPT !.pc = "svcLoadCompany", !.crawlRun = Len(crawlRuns) + 1])
  /\ UNCHANGED <<processes, company, crawlTargets, claims, claimVersions, changeEvents, evidence,
                 queues, clock, counters, history>>

\* A crawlCompany that works with an empty Company document instead of the
\* loaded one.
SvcLoadBlank(r) ==
  /\ At(r, "svcLoadCompany")
  /\ Set(r, [run[r] EXCEPT !.pc = "svcNext", !.company = [riskScore |-> 0],
                           !.todo = [n \in DOMAIN TargetOrder |->
                                       [target |-> TargetOrder[n],
                                        tdoc |-> crawlTargets[TargetOrder[n]]]]])
  /\ UNCHANGED <<processes, store, queues, clock, counters, history>>

\* Company.findById; CrawlTarget.find({companyId}): the documents are loaded once
\* and used for every target of the loop.
SvcLoad(r) ==
  /\ At(r, "svcLoadCompany")
  /\ Set(r, [run[r] EXCEPT !.pc = "svcNext", !.company = company,
                           !.todo = [n \in DOMAIN TargetOrder |->
                                       [target |-> TargetOrder[n],
                                        tdoc |-> crawlTargets[TargetOrder[n]]]]])
  /\ UNCHANGED <<processes, store, queues, clock, counters, history>>

\* for (const target of targets) { await this.crawlTarget(target, company, crawlRun) }
SvcNext(r) ==
  /\ At(r, "svcNext")
  /\ run[r].todo # <<>>
  /\ passes < MaxPasses
  /\ Set(r, [run[r] EXCEPT !.pc = "fetch",
                           !.target = Head(run[r].todo).target,
                           !.tdoc = Head(run[r].todo).tdoc,
                           !.todo = Tail(run[r].todo)])
  /\ passes' = passes + 1
  /\ clock' = clock + 1
  /\ UNCHANGED <<processes, store, queues, adds, hours, history>>

\* company.lastCrawledAt = new Date(); company.save(); crawlRun.status = 'completed';
\* crawlRun.save()
SvcFinish(r) ==
  /\ At(r, "svcNext")
  /\ run[r].todo = <<>>
  /\ crawlRuns' = [crawlRuns EXCEPT ![run[r].crawlRun].status = "completed"]
  /\ Set(r, Idle)
  /\ UNCHANGED <<processes, company, crawlTargets, claims, claimVersions, changeEvents, evidence,
                 queues, clock, counters, history>>

\* An hour without activity passes.
HourPasses ==
  /\ hours < MaxHours
  /\ hours' = hours + 1
  /\ clock' = clock + HourMs
  /\ UNCHANGED <<processes, store, queues, run, passes, adds, history>>

(***************************************************************************)
(* Specifications.  Each one is a scenario: the pages the site serves, the  *)
(* runners that work, the failures that happen.  The steps are those of    *)
(* the code in every one of them.                                          *)
(***************************************************************************)
\* A page short enough for expandSnippet to return all of it.
Short(sents) == Page(sents, 100, <<>>)

CrawlSteps(r) ==
  \/ LoadCompany(r)
  \/ LoadTarget(r)
  \/ FindRun(r)
  \/ CreateRun(r)
  \/ Digest(r)
  \/ NoChanges(r)
  \/ SweepFind(r)
  \/ SaveTarget(r)
  \/ SaveRun(r)

ClaimSteps(r) ==
  \/ FindClaim(r)
  \/ CreateClaim(r)
  \/ CreateVersion(r)
  \/ CreateAdded(r)
  \/ FindLast(r)
  \/ AppendVersion(r)
  \/ CreateEvent(r)
  \/ SaveClaim(r)
  \/ TouchClaim(r)
  \/ UpdateRisk(r)

SweepSteps(r) ==
  \/ SweepSave(r)
  \/ SweepEvent(r)

AlertSteps(r) ==
  \/ AlertCount(r)
  \/ AlertSend(r)
  \/ AlertSave(r)

EvidenceSteps(r) ==
  \/ EvFind(r)
  \/ EvCreate(r)
  \/ EvEnqueue(r)

ServiceSteps(r) ==
  \/ StartService(r)
  \/ SvcCreateRun(r)
  \/ SvcLoad(r)
  \/ SvcNext(r)
  \/ SvcFinish(r)

\* The queue: two worker slots, pages without claims, scrapes that may fail.
QueueSite == [t \in Targets |-> <<Short(<<>>)>>]

NextQueue ==
  \/ \E t \in Targets : enqueueCrawlTarget(t)
  \/ enqueueCrawlTargetsBatch
  \/ PromoteDelayed
  \/ HourPasses
  \/ RemoveFinished
  \/ \E r \in Workers :
       \/ TakeJob(r)
       \/ Fetch(r, QueueSite)
       \/ FetchThrows(r)
       \/ CrawlSteps(r)

SpecQueue == Init /\ [][NextQueue]_vars

PassesOn(rs, t) == {r \in rs : InPass(r) /\ run[r].target = t}

\* C1: while a job of a (company, target) pair is waiting, delayed or active a
\* second enqueue of the pair adds nothing: the queue holds one job with the key
\* crawl-{companyId}-{targetId}, one worker at most runs the crawl body for the
\* pair, and the body has run once for the job plus once per failed attempt that
\* was retried.
C1_EnqueueIdempotent ==
  \A t \in Targets :
    /\ Cardinality(JobsWithId(crawlQueue, JobKey(t))) <= 1
    /\ Cardinality(PassesOn(Workers, t)) <= 1
    /\ \A n \in JobsWithId(crawlQueue, JobKey(t)) :
         crawlQueue[n].runs =
           crawlQueue[n].attemptsMade +
             (IF crawlQueue[n].state \in {"active", "completed"} THEN 1 ELSE 0)

\* A job that an enqueue found pending has completed after one execution.
C1_Witness ==
  \E n \in DOMAIN crawlQueue :
    /\ crawlQueue[n].ignored
    /\ crawlQueue[n].state = "completed"
    /\ crawlQueue[n].runs = 1

\* The API process crawls too: the cron job of the server and the demo route
\* call CrawlService while the worker consumes the queue.
NextDirect ==
  \/ \E t \in Targets : enqueueCrawlTarget(t)
  \/ \E r \in Runners :
       \/ TakeJob(r)
       \/ Fetch(r, QueueSite)
       \/ CrawlSteps(r)
       \/ ServiceSteps(r)

SpecDirect == Init /\ [][NextDirect]_vars

\* C2: at every moment at most one crawl pass is executing for a target,
\* whichever path started it (worker job, server cron, demo route).
C2_OnePassPerTarget ==
  \A t \in Targets : Cardinality(PassesOn(Runners, t)) <= 1

\* Two targets that state the same claim in different words: the security page
\* first says SOC and later quotes the report, the trust page quotes the report
\* and later names ISO 27001 only.  A job may fail on its last write and be retried.
CrawlSite ==
  [t \in Targets |->
     IF t = "t1" THEN <<Short(<<S_SOC>>), Short(<<S_SOC_REPORT>>)>>
     ELSE <<Short(<<S_SOC_REPORT>>), Short(<<S_ISO>>)>>]

\* The scheduler's tick on an empty queue.
FirstTick == crawlQueue = <<>> /\ enqueueCrawlTargetsBatch

\* The last write of a job (crawlRun.save()) fails on its first attempt.
LastWriteFails(r) ==
  /\ At(r, "saveRun")
  /\ crawlQueue[run[r].job].attemptsMade = 0
  /\ StoreThrows(r, {"saveRun"})

NextCrawl ==
  \/ FirstTick
  \/ PromoteDelayed
  \/ \E t \in Targets : SiteChanges(CrawlSite, t)
  \/ \E r \in Workers :
       \/ TakeJob(r)
       \/ Fetch(r, CrawlSite)
       \/ LastWriteFails(r)
       \/ CrawlSteps(r)
       \/ ClaimSteps(r)
       \/ SweepSteps(r)
       \/ AlertSteps(r)

SpecCrawl == Init /\ [][NextCrawl]_vars

\* The runner has the scraped content in hand.
Fetched(r) ==
  InPass(r) /\ run[r].pc \notin {"loadCompany", "loadTarget", "findRun", "createRun", "fetch"}

\* The digest of the content the runner fetched is the digest stored in the
\* target document it loaded.
DigestUnchanged(r) ==
  /\ Fetched(r)
  /\ run[r].tdoc.lastHash # NoHash
  /\ run[r].tdoc.lastHash = Sha256(run[r].content)

\* C3: when the digest of the fetched content equals the target's stored digest,
\* no step of that crawl creates a ClaimVersion or a ChangeEvent, changes a Claim
\* row, the risk score or the stored digest of the target.
C3_SameDigestNoWrites ==
  [][\A r \in Runners :
       (DigestUnchanged(r) /\ run'[r] # run[r]) =>
          /\ claimVersions' = claimVersions
          /\ changeEvents' = changeEvents
          /\ claims' = claims
          /\ company' = company
          /\ crawlTargets' = crawlTargets]_vars

\* A crawl is leaving on the no-changes path after a pass that stored claims.
C3_Witness ==
  \E r \in Runners : At(r, "noChanges") /\ DigestUnchanged(r) /\ claims # <<>>

\* C4: in every state at most one Claim row exists for a (claim type, normalized
\* key) of the company, also while two jobs create the same key at once.
C4_OneClaimPerKey ==
  \A n, m \in DOMAIN claims :
    (claims[n].claimType = claims[m].claimType /\
     claims[n].normalizedKey = claims[m].normalizedKey) => n = m

\* A job found no row for the key and is about to insert it, and another job
\* has inserted the row meanwhile.
C4_Witness ==
  \E r \in Runners :
    /\ At(r, "createClaim")
    /\ ClaimsMatching(Cur(r).claimType, Cur(r).normalizedKey) # {}

Before(n, m) ==
  \/ claimVersions[n].seenAt < claimVersions[m].seenAt
  \/ (claimVersions[n].seenAt = claimVersions[m].seenAt /\ n < m)

\* C5: two versions of a claim that are neighbours in the order of seenAt have
\* different content digests.
C5_AdjacentDigestsDiffer ==
  \A n, m \in DOMAIN claimVersions :
    (/\ claimVersions[n].claimId = claimVersions[m].claimId
     /\ Before(n, m)
     /\ ~\E k \in VersionsOf(claimVersions[n].claimId) : Before(n, k) /\ Before(k, m))
    => claimVersions[n].contentHash # claimVersions[m].contentHash

\* C6: every ChangeEvent has the payload of its type: REMOVED old only, ADDED
\* new only, WEAKENED / REVERSED / NUMBER_CHANGED both.
C6_PayloadMatrix ==
  \A n \in DOMAIN changeEvents :
    LET e == changeEvents[n]
    IN CASE e.eventType = "REMOVED" -> e.oldSnippet # NoSnippet /\ e.newSnippet = NoSnippet
         [] e.eventType = "ADDED" -> e.oldSnippet = NoSnippet /\ e.newSnippet # NoSnippet
         [] OTHER -> e.oldSnippet # NoSnippet /\ e.newSnippet # NoSnippet

\* C9: the keys a crawl of a target emits REMOVED for are the keys that an
\* earlier extraction on the target returned and the current one does not.
C9_RemovedIffDisappeared ==
  [][\A r \in Runners :
       (At(r, "sweepFind") /\ run'[r] # run[r]) =>
          {run'[r].existing[n].normalizedKey : n \in DOMAIN run'[r].existing}
            = extractedOn[run[r].target] \ ExtractedKeys(run[r].extracted)]_vars

\* C10: a step of a crawl pass creates no REMOVED event and sets no claim to
\* REMOVED for a key that the pass extracted from the target's content.
C10_NoRemovedForExtracted ==
  [][\A r \in Runners :
       (InPass(r) /\ run'[r] # run[r]) =>
          /\ \A n \in DOMAIN changeEvents' \ DOMAIN changeEvents :
               changeEvents'[n].eventType = "REMOVED" =>
                 changeEvents'[n].normalizedKey \notin ExtractedKeys(run[r].extracted)
          /\ \A n \in DOMAIN claims :
               (claims'[n].currentStatus = "REMOVED" /\ claims[n].currentStatus # "REMOVED") =>
                 claims[n].normalizedKey \notin ExtractedKeys(run[r].extracted)]_vars

\* A pass that extracted a claim has emitted REMOVED for another one.
C10_Witness ==
  \E r \in Runners :
    /\ At(r, "risk")
    /\ run[r].ret = "sweep"
    /\ run[r].extracted # <<>>
    /\ changeEvents[run[r].event].eventType = "REMOVED"

\* A page longer than the snippet window: a snippet is the sentence of the match.
Long(sents) == Page(sents, 3 * LongText, <<>>)

\* The security page states an uptime and SOC 2 and is later emptied; the trust
\* page states a lower uptime.
RiskSite ==
  [t \in Targets |->
     IF t = "t1" THEN <<Short(<<S_UP_9999, S_SOC>>), Short(<<>>)>>
     ELSE <<Short(<<S_UP_999>>)>>]

NextRisk ==
  \/ FirstTick
  \/ PromoteDelayed
  \/ \E t \in Targets : SiteChanges(RiskSite, t)
  \/ \E r \in Workers :
       \/ TakeJob(r)
       \/ Fetch(r, RiskSite)
       \/ LastWriteFails(r)
       \/ CrawlSteps(r)
       \/ FindClaim(r)
       \/ CreateClaim(r)
       \/ CreateVersion(r)
       \/ CreateAdded(r)
       \/ FindLast(r)
       \/ AppendVersion(r)
       \/ CreateEvent(r)
       \/ SaveClaim(r)
       \/ UpdateRisk(r)
       \/ SweepSteps(r)
       \/ AlertSteps(r)

SpecRisk == Init /\ [][NextRisk]_vars

\* C7: the stored risk score of the company never decreases and never exceeds 100.
C7_RiskMonotone ==
  [][company'.riskScore >= company.riskScore /\ company'.riskScore <= MaxRisk]_vars

\* The security page lists five certifications and the do-not-sell promise and
\* later only the promise; the trust page weakens the promise.
AlertSite ==
  [t \in Targets |->
     IF t = "t1"
     THEN <<Long(<<S_SOC, S_ISO, S_HIPAA, S_GDPR, S_PCI, S_DNS>>), Short(<<S_DNS>>)>>
     ELSE <<Short(<<S_DNS, S_MAY>>)>>]

\* The user starts a crawl of the trust page once the security page has been
\* edited and no crawl is running.
EnqueueTrustPage ==
  /\ web["t1"] = 2
  /\ \A r \in Workers : At(r, "idle")
  /\ enqueueCrawlTarget("t2")

NextAlert ==
  \/ enqueueCrawlTarget("t1")
  \/ EnqueueTrustPage
  \/ PromoteDelayed
  \/ \E t \in Targets : SiteChanges(AlertSite, t)
  \/ \E r \in Workers :
       \/ TakeJob(r)
       \/ Fetch(r, AlertSite)
       \/ LastWriteFails(r)
       \/ CrawlSteps(r)
       \/ ClaimSteps(r)
       \/ SweepSteps(r)
       \/ AlertSteps(r)

SpecAlert == Init /\ [][NextAlert]_vars

Emailed == {n \in DOMAIN changeEvents : changeEvents[n].emailedAt # NoTime}

\* C8: in every state every 60-minute window holds at most 5 events of the
\* company with an emailedAt.
C8_RateLimit ==
  \A n \in Emailed :
    Cardinality({m \in Emailed :
                   /\ changeEvents[m].emailedAt >= changeEvents[n].emailedAt
                   /\ changeEvents[m].emailedAt < changeEvents[n].emailedAt + HourMs})
      <= RateLimit

(***************************************************************************)
(* A store write that fails between the version and its event.             *)
(***************************************************************************)
AtomicSite ==
  [t \in Targets |->
     IF t = "t1" THEN <<Short(<<S_SOC>>)>> ELSE <<Short(<<S_SOC_REPORT>>)>>]

\* ChangeEvent.create throws on a job's first attempt: the ClaimVersion of the
\* change is written, its event is not.
EventWriteFails(r) ==
  /\ run[r].pc \in {"createAdded", "createEvent"}
  /\ crawlQueue[run[r].job].attemptsMade = 0
  /\ StoreThrows(r, {"createAdded", "createEvent"})

NextAtomic ==
  \/ FirstTick
  \/ PromoteDelayed
  \/ \E r \in Workers :
       \/ TakeJob(r)
       \/ Fetch(r, AtomicSite)
       \/ EventWriteFails(r)
       \/ LoadCompany(r)
       \/ LoadTarget(r)
       \/ FindRun(r)
       \/ CreateRun(r)
       \/ Digest(r)
       \/ FindClaim(r)
       \/ CreateClaim(r)
       \/ CreateVersion(r)
       \/ CreateAdded(r)
       \/ FindLast(r)
       \/ AppendVersion(r)
       \/ CreateEvent(r)
       \/ SaveClaim(r)
       \/ TouchClaim(r)
       \/ UpdateRisk(r)
       \/ SweepFind(r)
       \/ SaveTarget(r)
       \/ SaveRun(r)

SpecAtomic == Init /\ [][NextAtomic]_vars

\* The event of version n: same claim, same snippet, same time, same page.
EventOfVersion(n, m) ==
  /\ changeEvents[m].eventType # "REMOVED"
  /\ changeEvents[m].normalizedKey = claims[claimVersions[n].claimId].normalizedKey
  /\ changeEvents[m].newSnippet = claimVersions[n].snippet
  /\ changeEvents[m].detectedAt = claimVersions[n].seenAt
  /\ changeEvents[m].sourceUrl = claimVersions[n].sourceUrl

\* C11: whenever no job stands between the write of a version and the write of
\* its event, every ClaimVersion has its ChangeEvent and every ChangeEvent of a
\* change has its ClaimVersion.
C11_VersionIffEvent ==
  (\A r \in Runners : run[r].pc \notin {"createAdded", "createEvent"}) =>
     /\ \A n \in DOMAIN claimVersions : \E m \in DOMAIN changeEvents : EventOfVersion(n, m)
     /\ \A m \in DOMAIN changeEvents :
          changeEvents[m].eventType # "REMOVED" =>
            \E n \in DOMAIN claimVersions : EventOfVersion(n, m)

(***************************************************************************)
(* processEvidenceJob, run by the evidence worker (concurrency 2).  The    *)
(* position of the processor and the document it loaded are kept with the  *)
(* active job.                                                             *)
(***************************************************************************)
EvidenceConcurrency == 2

EvJob(n) == evidenceQueue[n]
EvActive == {n \in DOMAIN evidenceQueue : evidenceQueue[n].state = "active"}
EvAt(n, label) ==
  n \in DOMAIN evidenceQueue /\ evidenceQueue[n].state = "active" /\ evidenceQueue[n].pc = label
EvSet(n, job) == evidenceQueue' = [evidenceQueue EXCEPT ![n] = job]

\* reductoClient.extractEvidenceFields(result.text)
extractEvidenceFields(pdfUrl) == <<"fields", pdfUrl>>

\* the evidence worker takes a waiting job
EvTakeJob(n) ==
  /\ n \in DOMAIN evidenceQueue
  /\ shutdown.evidenceWorker = "running"
  /\ evidenceQueue[n].state = "waiting"
  /\ Cardinality(EvActive) < EvidenceConcurrency
  /\ passes < MaxPasses
  /\ passes' = passes + 1
  /\ clock' = clock + 1
  /\ EvSet(n, [EvJob(n) EXCEPT !.state = "active", !.pc = "findById", !.loaded = ""])
  /\ UNCHANGED <<processes, store, crawlQueue, run, web, adds, hours, extractedOn, baseline>>

\* const evidence = await Evidence.findById(evidenceId); the status is not looked at
EvLoad(n) ==
  /\ EvAt(n, "findById")
  /\ EvidenceFound(EvJob(n).evidenceId)
  /\ EvSet(n, [EvJob(n) EXCEPT !.pc = "parsePDF",
                               !.loaded = evidence[EvJob(n).evidenceId].status])
  /\ UNCHANGED <<processes, store, crawlQueue, clock, run, counters, history>>

\* await reductoClient.parsePDF(pdfUrl): returns the text or throws
EvParse(n) ==
  /\ EvAt(n, "parsePDF")
  /\ \E ok \in BOOLEAN :
       EvSet(n, [EvJob(n) EXCEPT !.pc = IF ok THEN "saveReady" ELSE "saveFailed"])
  /\ UNCHANGED <<processes, store, crawlQueue, clock, run, counters, history>>

\* evidence.extractedFields = fields; status = 'READY'; processedAt = new Date(); save()
EvSaveReady(n) ==
  /\ EvAt(n, "saveReady")
  /\ evidence' = [evidence EXCEPT ![EvJob(n).evidenceId] =
        [@ EXCEPT !.extractedFields = extractEvidenceFields(evidence[EvJob(n).evidenceId].pdfUrl),
                  !.status = "READY", !.processedAt = clock]]
  /\ EvSet(n, [EvJob(n) EXCEPT !.pc = "return"])
  /\ UNCHANGED <<processes, company, crawlTargets, claims, claimVersions, changeEvents, crawlRuns,
                 crawlQueue, clock, run, counters, history>>

\* catch: status = 'FAILED'; error = error.message; processedAt = new Date(); save();
\* throw error: the job is retried after its backoff, or failed after the last attempt
EvSaveFailed(n) ==
  /\ EvAt(n, "saveFailed")
  /\ evidence' = [evidence EXCEPT ![EvJob(n).evidenceId] =
        [@ EXCEPT !.status = "FAILED", !.error = "parsePDF", !.processedAt = clock]]
  /\ EvSet(n, [EvJob(n) EXCEPT
                 !.state = IF EvJob(n).attemptsMade + 1 < Attempts THEN "delayed" ELSE "failed",
                 !.attemptsMade = @ + 1, !.pc = ""])
  /\ UNCHANGED <<processes, company, crawlTargets, claims, claimVersions, changeEvents, crawlRuns,
                 crawlQueue, clock, run, counters, history>>

\* the processor returned: the worker marks the job completed
EvCompleted(n) ==
  /\ EvAt(n, "return")
  /\ EvSet(n, [EvJob(n) EXCEPT !.state = "completed", !.pc = ""])
  /\ UNCHANGED <<processes, store, crawlQueue, clock, run, counters, history>>

\* The worker process dies after evidence.save() and before the job is marked
\* completed: its lock runs out and the queue hands the job out again (once:
\* a job that stalls again is failed).
EvWorkerDies(n) ==
  /\ EvAt(n, "return")
  /\ ~EvJob(n).stalled
  /\ EvSet(n, [EvJob(n) EXCEPT !.state = "waiting", !.stalled = TRUE, !.pc = ""])
  /\ UNCHANGED <<processes, store, crawlQueue, clock, run, counters, history>>

\* the backoff of a failed attempt is over
EvPromote(n) ==
  /\ n \in DOMAIN evidenceQueue
  /\ evidenceQueue[n].state = "delayed"
  /\ EvSet(n, [EvJob(n) EXCEPT !.state = "waiting"])
  /\ UNCHANGED <<processes, store, crawlQueue, clock, run, counters, history>>

\* A row is inserted only by a job that found none, so there are never more
\* evidence jobs than crawl jobs running side by side.
EvSlots == 1 .. Cardinality(Workers)

\* Both targets link the same report.
Pdf(sents, pdfs) == Page(sents, 100, pdfs)
EvidenceSite == [t \in Targets |-> <<Pdf(<<>>, <<"soc2.pdf">>)>>]

NextEvidence ==
  \/ FirstTick
  \/ \E r \in Workers :
       \/ TakeJob(r)
       \/ Fetch(r, EvidenceSite)
       \/ LoadCompany(r)
       \/ LoadTarget(r)
       \/ FindRun(r)
       \/ CreateRun(r)
       \/ Digest(r)
       \/ SweepFind(r)
       \/ SaveTarget(r)
       \/ EvFind(r)
       \/ EvCreate(r)
       \/ EvEnqueue(r)
       \/ SaveRun(r)
  \/ \E n \in EvSlots :
       \/ EvTakeJob(n)
       \/ EvLoad(n)
       \/ EvParse(n)
       \/ EvSaveReady(n)
       \/ EvSaveFailed(n)
       \/ EvCompleted(n)
       \/ EvWorkerDies(n)
       \/ EvPromote(n)

SpecEvidence == Init /\ [][NextEvidence]_vars

\* C12: a process_evidence job that loaded a READY row does not call the parser
\* and leaves the row as it was.
C12_ReadyReplayExits ==
  [][\A n \in DOMAIN evidenceQueue :
       (evidenceQueue[n].state = "active" /\ evidenceQueue[n].loaded = "READY") =>
         /\ evidence'[evidenceQueue[n].evidenceId] = evidence[evidenceQueue[n].evidenceId]
         /\ evidenceQueue'[n].pc \notin {"saveReady", "saveFailed"}]_vars

\* C13: there is at most one Evidence row per (company, PDF URL), and at most
\* one evidence job per PDF URL.
C13_OneEvidencePerPdf ==
  /\ \A m, n \in DOMAIN evidence : evidence[m].pdfUrl = evidence[n].pdfUrl => m = n
  /\ \A m, n \in DOMAIN evidenceQueue :
       evidence[evidenceQueue[m].evidenceId].pdfUrl = evidence[evidenceQueue[n].evidenceId].pdfUrl
         => m = n

(***************************************************************************)
(* scheduler/crawlScheduler: cron.schedule(..., scheduleCrawls) on every   *)
(* replica, guarded by the Redis key scheduler:crawl:lock (SET NX EX 60).  *)
(***************************************************************************)

InBody(s) == replicas[s].pc \in {"companies", "targets", "enqueue"}
SchedGoto(s, label) == replicas' = [replicas EXCEPT ![s].pc = label]

\* The cron expression matches (every 6 hours by default): node-cron will call
\* the callback on every replica.  The period is far longer than the lock's
\* 60 seconds: a key set at the previous instant has expired by now.
CronFires ==
  /\ \A s \in Replicas : replicas[s].pc = "idle"
  /\ ~schedulerLock
  /\ replicas' = [s \in Replicas |-> [pc |-> "tick"]]
  /\ cycle' = [cycle EXCEPT !.fired = TRUE, !.enqueued = {}]
  /\ UNCHANGED <<shutdown, store, queues, clock, run, counters, history, schedulerLock>>

\* A key set without EX stays for good.
LockPersists ==
  /\ schedulerLock
  /\ UNCHANGED vars

\* SCHEDULER_LOCK_TTL seconds after the SET the key expires; nothing renews it.
LockExpires ==
  /\ schedulerLock
  /\ schedulerLock' = FALSE
  /\ UNCHANGED <<shutdown, store, queues, clock, run, counters, history, replicas, cycle>>

\* acquireSchedulerLock: SET key 'locked' EX 60 NX; the tick goes on if the
\* reply is OK and returns otherwise.
acquireSchedulerLock(s) ==
  /\ replicas[s].pc = "tick"
  /\ schedulerLock' = TRUE
  /\ SchedGoto(s, IF schedulerLock THEN "idle" ELSE "companies")
  /\ UNCHANGED <<shutdown, store, queues, clock, run, counters, history, cycle>>

\* const companies = await Company.find({})
FindCompanies(s) ==
  /\ replicas[s].pc = "companies"
  /\ SchedGoto(s, "targets")
  /\ UNCHANGED <<shutdown, store, queues, clock, run, counters, history, schedulerLock, cycle>>

\* for (const company of companies) await CrawlTarget.find({companyId})
FindTargets(s) ==
  /\ replicas[s].pc = "targets"
  /\ SchedGoto(s, "enqueue")
  /\ UNCHANGED <<shutdown, store, queues, clock, run, counters, history, schedulerLock, cycle>>

\* await enqueueCrawlTargetsBatch(jobsToEnqueue): one job per target
ScheduleEnqueue(s) ==
  /\ replicas[s].pc = "enqueue"
  /\ crawlQueue' = QueueAddBulk(crawlQueue, Targets)
  /\ SchedGoto(s, "idle")
  /\ cycle' = [cycle EXCEPT !.enqueued = @ \cup {s},
                            !.wedged = IF @ = "no" THEN "no" ELSE "recovered"]
  /\ UNCHANGED <<shutdown, store, evidenceQueue, clock, run, counters, history, schedulerLock>>

\* A query of the enumeration rejects: the catch block logs it and the tick
\* ends.  The key stays until it expires.
EnumerationThrows(s) ==
  /\ replicas[s].pc \in {"companies", "targets"}
  /\ cycle.wedged # "wedged"
  /\ SchedGoto(s, "idle")
  /\ cycle' = [cycle EXCEPT !.wedged = "wedged"]
  /\ UNCHANGED <<shutdown, store, queues, clock, run, counters, history, schedulerLock>>

\* The replica's process dies inside the tick and is started again; its cron
\* waits for the next instant.  The key stays until it expires.
ReplicaCrashes(s) ==
  /\ InBody(s)
  /\ cycle.wedged # "wedged"
  /\ SchedGoto(s, "idle")
  /\ cycle' = [cycle EXCEPT !.wedged = "wedged"]
  /\ UNCHANGED <<shutdown, store, queues, clock, run, counters, history, schedulerLock>>

NextScheduler ==
  \/ CronFires
  \/ LockExpires
  \/ \E s \in Replicas :
       \/ acquireSchedulerLock(s)
       \/ FindCompanies(s)
       \/ FindTargets(s)
       \/ ScheduleEnqueue(s)
       \/ EnumerationThrows(s)
       \/ ReplicaCrashes(s)

SpecScheduler == Init /\ [][NextScheduler]_vars

\* Ticks start, go on and end; keys expire; the cron fires again and again.
SpecSchedulerFair ==
  /\ SpecScheduler
  /\ WF_vars(CronFires)
  /\ WF_vars(LockExpires)
  /\ \A s \in Replicas :
       /\ WF_vars(acquireSchedulerLock(s))
       /\ WF_vars(FindCompanies(s))
       /\ WF_vars(FindTargets(s))
       /\ WF_vars(ScheduleEnqueue(s))

\* C14: a tick that does not get the lock ends without enqueueing, and of the
\* ticks of one cron instant exactly one enqueues the crawl jobs.
C14_OneTickPerCadence ==
  [][/\ \A s \in Replicas :
          (replicas[s].pc = "tick" /\ schedulerLock /\ replicas'[s].pc # "tick") =>
             (replicas'[s].pc = "idle" /\ crawlQueue' = crawlQueue)
     /\ Cardinality(cycle'.enqueued) <= 1
     /\ (cycle'.fired /\ \A s \in Replicas : replicas'[s].pc = "idle") =>
          Cardinality(cycle'.enqueued) = 1]_vars

\* C15: two replicas are never inside the body of a tick at the same time.
C15_OneReplicaInBody ==
  \A s, t \in Replicas : (InBody(s) /\ InBody(t)) => s = t

Finished(job) == job.state \in {"completed", "failed"}

NextRetry ==
  \/ enqueueCrawlTargetsBatch
  \/ PromoteDelayed
  \/ HourPasses
  \/ RemoveFinished
  \/ \E r \in Workers :
       \/ TakeJob(r)
       \/ Fetch(r, QueueSite)
       \/ FetchThrows(r)
       \/ CrawlSteps(r)

SpecRetry == Init /\ [][NextRetry]_vars

HasPending(q, t) == \E n \in JobsWithId(q, JobKey(t)) : q[n].state \in PendingStates
HasFailed(q, t) == \E n \in JobsWithId(q, JobKey(t)) : q[n].state = "failed"

\* C18: a failed job that is still in the queue does not block the next
\* enqueue of its key: after the batch enqueue of a scheduler tick every target
\* whose previous job failed has a pending job.
C18_FailedJobDoesNotBlock ==
  [][adds' = adds + 1 =>
       \A t \in Targets : HasFailed(crawlQueue, t) => HasPending(crawlQueue', t)]_vars

(***************************************************************************)
(* Shutdown of the worker process: the handlers of worker.ts for SIGTERM   *)
(* and SIGINT, and the SIGTERM handler that queue/queue.ts registers in    *)
(* every process that imports the queues.                                  *)
(***************************************************************************)
Signals == {"SIGTERM", "SIGINT"}

\* The process gets the signal: the handler of worker.ts logs and calls
\* crawlWorker.close(), which stops the crawl worker from taking jobs.
Signal(sig) ==
  /\ shutdown.signal = ""
  /\ shutdown' = [shutdown EXCEPT !.signal = sig, !.handler = "closeCrawl",
                                  !.crawlWorker = "closing"]
  /\ UNCHANGED <<store, queues, clock, run, counters, history,
                 schedulerLock, replicas, cycle>>

\* queue.ts, on SIGTERM only: await Promise.all([crawlQueue.close(),
\* evidenceQueue.close(), emailQueue.close()]); it waits for nothing.
CloseQueues ==
  /\ shutdown.signal = "SIGTERM"
  /\ shutdown.queues = "open"
  /\ shutdown' = [shutdown EXCEPT !.queues = "closed"]
  /\ UNCHANGED <<store, queues, clock, run, counters, history,
                 schedulerLock, replicas, cycle>>

\* await crawlWorker.close() resolves when the crawl jobs in process are over;
\* only then the handler calls evidenceWorker.close().
CrawlWorkerClosed ==
  /\ shutdown.handler = "closeCrawl"
  /\ \A r \in Workers : ~InPass(r)
  /\ shutdown' = [shutdown EXCEPT !.handler = "closeEvidence", !.crawlWorker = "closed",
                                  !.evidenceWorker = "closing"]
  /\ UNCHANGED <<store, queues, clock, run, counters, history,
                 schedulerLock, replicas, cycle>>

\* await evidenceWorker.close() resolves when its jobs in process are over.
EvidenceWorkerClosed ==
  /\ shutdown.handler = "closeEvidence"
  /\ EvActive = {}
  /\ shutdown' = [shutdown EXCEPT !.handler = "disconnect", !.evidenceWorker = "closed"]
  /\ UNCHANGED <<store, queues, clock, run, counters, history,
                 schedulerLock, replicas, cycle>>

\* await mongoose.disconnect(); process.exit(0)
Exit ==
  /\ shutdown.handler = "disconnect"
  /\ shutdown' = [shutdown EXCEPT !.handler = "exited"]
  /\ UNCHANGED <<store, queues, clock, run, counters, history,
                 schedulerLock, replicas, cycle>>

\* evidenceQueue.add on the closed queue rejects: the error leaves
\* extractAndEnqueueEvidence and processCrawlJob, the job has thrown.
EvEnqueueThrows(r) ==
  /\ At(r, "evEnqueue")
  /\ shutdown.queues = "closed"
  /\ EndPass(r, "threw")
  /\ UNCHANGED <<processes, store, evidenceQueue, clock, counters, history>>

NextShutdown ==
  \/ FirstTick
  \/ \E sig \in Signals : Signal(sig)
  \/ CloseQueues
  \/ CrawlWorkerClosed
  \/ EvidenceWorkerClosed
  \/ Exit
  \/ \E r \in Workers :
       \/ TakeJob(r)
       \/ Fetch(r, EvidenceSite)
       \/ LoadCompany(r)
       \/ LoadTarget(r)
       \/ FindRun(r)
       \/ CreateRun(r)
       \/ Digest(r)
       \/ SweepFind(r)
       \/ SaveTarget(r)
       \/ EvFind(r)
       \/ EvCreate(r)
       \/ EvEnqueue(r)
       \/ EvEnqueueThrows(r)
       \/ SaveRun(r)
  \/ \E n \in EvSlots :
       \/ EvTakeJob(n)
       \/ EvLoad(n)
       \/ EvParse(n)
       \/ EvSaveReady(n)
       \/ EvSaveFailed(n)
       \/ EvCompleted(n)
       \/ EvPromote(n)

SpecShutdown == Init /\ [][NextShutdown]_vars

Active(q) == {n \in DOMAIN q : q[n].state = "active"}

\* C19: once the process has the signal no worker takes a job, every job in
\* process ends completed, and the queue connections are closed only when no
\* job is in process.
C19_GracefulShutdown ==
  [][shutdown.signal # "" =>
       /\ Active(crawlQueue') \subseteq Active(crawlQueue)
       /\ Active(evidenceQueue') \subseteq Active(evidenceQueue)
       /\ \A n \in Active(crawlQueue) \ Active(crawlQueue') :
            crawlQueue'[n].state = "completed"
       /\ (shutdown.queues = "open" /\ shutdown'.queues = "closed") =>
            (Active(crawlQueue) = {} /\ Active(evidenceQueue) = {})]_vars

(***************************************************************************)
(* Pages whose edits produce every kind of event the classifier can emit.  *)
(***************************************************************************)
SeveritySite ==
  [t \in Targets |->
     IF t = "t1" THEN <<Long(<<S_UP_999, S_DNS, S_SOC>>), Long(<<S_UP_STRIVE>>)>>
     ELSE <<Long(<<S_UP_9999>>)>>]

\* The company edits its page while no crawl is running.
EditBetweenPasses ==
  /\ \A r \in Workers : At(r, "idle")
  /\ SiteChanges(SeveritySite, "t1")

NextSeverity ==
  \/ FirstTick
  \/ PromoteDelayed
  \/ EditBetweenPasses
  \/ \E r \in Workers :
       \/ TakeJob(r)
       \/ Fetch(r, SeveritySite)
       \/ LastWriteFails(r)
       \/ CrawlSteps(r)
       \/ FindClaim(r)
       \/ CreateClaim(r)
       \/ CreateVersion(r)
       \/ CreateAdded(r)
       \/ FindLast(r)
       \/ AppendVersion(r)
       \/ CreateEvent(r)
       \/ SaveClaim(r)
       \/ TouchClaim(r)
       \/ UpdateRisk(r)
       \/ SweepSteps(r)
       \/ AlertSteps(r)

SpecSeverity == Init /\ [][NextSeverity]_vars

\* The severity the table of the claim gives.
SeverityTable(eventType, claimType, decreased) ==
  CASE eventType = "ADDED" -> "Info"
    [] eventType = "REMOVED" -> IF claimType = "compliance" THEN "Critical" ELSE "Medium"
    [] eventType = "WEAKENED" -> "Critical"
    [] eventType = "REVERSED" -> "Critical"
    [] eventType = "NUMBER_CHANGED" -> IF decreased THEN "Medium" ELSE "Info"

FirstSite == [t \in Targets |-> <<Short(<<S_SOC>>)>>]

NextFirst ==
  \/ FirstTick
  \/ PromoteDelayed
  \/ \E r \in Workers :
       \/ TakeJob(r)
       \/ Fetch(r, FirstSite)
       \/ LastWriteFails(r)
       \/ CrawlSteps(r)
       \/ FindClaim(r)
       \/ CreateClaim(r)
       \/ CreateVersion(r)
       \/ CreateAdded(r)
       \/ FindLast(r)
       \/ AppendVersion(r)
       \/ TouchClaim(r)

SpecFirst == Init /\ [][NextFirst]_vars

EventsOf(key) == {m \in DOMAIN changeEvents : changeEvents[m].normalizedKey = key}

\* C21: when the jobs that observed a key for the first time are over, the key
\* has one ACTIVE Claim, one ClaimVersion and one ChangeEvent, ADDED with
\* severity Info; the risk score has not moved and no alert was sent.
C21_FirstObservation ==
  (crawlQueue # <<>> /\ \A n \in DOMAIN crawlQueue : Finished(crawlQueue[n])) =>
     /\ company.riskScore = 0
     /\ Emailed = {}
     /\ \A key \in extractedOn["t1"] \cup extractedOn["t2"] :
          /\ Cardinality(ClaimsMatching(PatternType(key), key)) = 1
          /\ \A c \in ClaimsMatching(PatternType(key), key) :
               /\ claims[c].currentStatus = "ACTIVE"
               /\ Cardinality(VersionsOf(c)) = 1
          /\ Cardinality(EventsOf(key)) = 1
          /\ \A m \in EventsOf(key) :
               changeEvents[m].eventType = "ADDED" /\ changeEvents[m].severity = "Info"


\* The runner's changed claim is weakened and its last version and the
\* extraction carry different numbers.
WeakenedAndNumberChanged(r) ==
  /\ run[r].lastVersion # 0
  /\ detectWeakening(run[r].claim.currentSnippet, Cur(r).rawTextSnippet)
  /\ claimVersions[run[r].lastVersion].value # 0
  /\ Cur(r).value # 0
  /\ claimVersions[run[r].lastVersion].value # Cur(r).value

\* C22: when the snippet of an existing claim changed, the change matches a
\* weakening pattern and the two versions carry different numbers, the event
\* that is written is WEAKENED/Critical and updateRiskScore saves the job's
\* score raised by 40 (capped at 100), not by 10.
C22_WeakeningWins ==
  [][\A r \in Workers :
       /\ (At(r, "createEvent") /\ ~At(r, "createEvent")' /\ WeakenedAndNumberChanged(r)) =>
            /\ Len(changeEvents') = Len(changeEvents) + 1
            /\ changeEvents'[Len(changeEvents')].eventType = "WEAKENED"
            /\ changeEvents'[Len(changeEvents')].severity = "Critical"
       /\ (At(r, "risk") /\ ~At(r, "risk")' /\ WeakenedAndNumberChanged(r)) =>
            company'.riskScore = Min(MaxRisk, run[r].company.riskScore + 40)]_vars

\* An uptime guarantee of 99.99 was replaced by "strive for 99.9": the event is
\* WEAKENED and the score has been raised.
C22_Witness ==
  \E m \in DOMAIN changeEvents :
    /\ changeEvents[m].eventType = "WEAKENED"
    /\ changeEvents[m].normalizedKey = "UPTIME"
    /\ MatchNumber(changeEvents[m].oldSnippet[1]) # MatchNumber(changeEvents[m].newSnippet[1])
    /\ company.riskScore >= 40


\* C23: no step of the API process (its routes, the cron job that server.ts
\* starts) calls the content-fetch adapter; the pages are fetched by worker
\* jobs only.
C23_NoFetchInApi ==
  [][\A r \in Services : ~(At(r, "fetch") /\ ~At(r, "fetch")')]_vars


(***************************************************************************)
(* The evidence worker with a store that may reject a write: evidence.save *)
(* validates the assigned extractedFields (periodStart and periodEnd are   *)
(* Dates built from the text of the PDF) and needs the connection.         *)
(***************************************************************************)
\* await evidence.save() in the try block rejects: control enters the catch block
EvSaveReadyThrows(n) ==
  /\ EvAt(n, "saveReady")
  /\ EvSet(n, [EvJob(n) EXCEPT !.pc = "saveFailed"])
  /\ UNCHANGED <<processes, store, crawlQueue, clock, run, counters, history>>

\* await evidence.save() in the catch block rejects: its error leaves the
\* processor instead of the caught one, and nothing was written
EvSaveFailedThrows(n) ==
  /\ EvAt(n, "saveFailed")
  /\ EvSet(n, [EvJob(n) EXCEPT
                 !.state = IF EvJob(n).attemptsMade + 1 < Attempts THEN "delayed" ELSE "failed",
                 !.attemptsMade = @ + 1, !.pc = ""])
  /\ UNCHANGED <<processes, store, crawlQueue, clock, run, counters, history>>

NextPersist ==
  \/ NextEvidence
  \/ \E n \in EvSlots : EvSaveReadyThrows(n) \/ EvSaveFailedThrows(n)

SpecPersist == Init /\ [][NextPersist]_vars

\* C24: an attempt of a process_evidence job that fails leaves its Evidence row
\* FAILED with an error text and a processedAt stamp and counts against the
\* three attempts (retried while attempts remain); an attempt that succeeds
\* leaves the row READY.
C24_FailedAttemptMarksRow ==
  [][\A n \in EvSlots :
       (n \in DOMAIN evidenceQueue /\ evidenceQueue[n].state = "active") =>
          LET row == evidence'[evidenceQueue[n].evidenceId]
              job == evidenceQueue'[n]
          IN /\ job.state \in {"delayed", "failed"} =>
                  /\ row.status = "FAILED"
                  /\ row.error # ""
                  /\ row.processedAt # NoTime
                  /\ job.attemptsMade = evidenceQueue[n].attemptsMade + 1
                  /\ job.attemptsMade <= Attempts
                  /\ job.state = "failed" <=> job.attemptsMade = Attempts
             /\ job.state = "completed" => row.status = "READY"]_vars


(***************************************************************************)
(* A promise that is weakened between two attempts of a job, and a mail    *)
(* service that may fail.                                                  *)
(***************************************************************************)
\* A catch block that stamps the event although the mail was not sent.
AlertSendThrowsStamped(r) ==
  /\ At(r, "alertSend")
  /\ changeEvents' = [changeEvents EXCEPT ![run[r].event].emailedAt = clock]
  /\ Set(r, Resume(run[r]))
  /\ UNCHANGED <<processes, company, crawlTargets, claims, claimVersions, crawlRuns, evidence,
                 queues, clock, counters, history>>

\* sendAlertEmail throws (it logs and re-throws the error of the mail API); the
\* catch block of sendCriticalAlert logs it and returns.
AlertSendThrows(r) ==
  /\ At(r, "alertSend")
  /\ Set(r, Resume(run[r]))
  /\ UNCHANGED <<processes, store, queues, clock, counters, history>>

MailSite ==
  [t \in Targets |->
     IF t = "t1" THEN <<Short(<<S_DNS>>), Short(<<S_DNS, S_MAY>>)>> ELSE <<Short(<<S_SOC>>)>>]

\* The company edits its page while no crawl is running.
EditBeforeRetry ==
  /\ \A r \in Workers : At(r, "idle")
  /\ SiteChanges(MailSite, "t1")

NextMail ==
  \/ FirstTick
  \/ PromoteDelayed
  \/ EditBeforeRetry
  \/ \E r \in Workers :
       \/ TakeJob(r)
       \/ Fetch(r, MailSite)
       \/ FetchThrows(r)
       \/ LastWriteFails(r)
       \/ CrawlSteps(r)
       \/ FindClaim(r)
       \/ CreateClaim(r)
       \/ CreateVersion(r)
       \/ CreateAdded(r)
       \/ FindLast(r)
       \/ AppendVersion(r)
       \/ CreateEvent(r)
       \/ SaveClaim(r)
       \/ UpdateRisk(r)
       \/ AlertSteps(r)
       \/ AlertSendThrows(r)

SpecMail == Init /\ [][NextMail]_vars

\* C25: an external call that fails during a crawl job fails the attempt (the
\* job goes back to the queue, or is failed after its last attempt), so that a
\* later attempt makes the call again: the scrape, and the alert mail of a
\* Critical event.
C25_ExternalFailureFailsAttempt ==
  [][\A r \in Workers :
       \/ /\ At(r, "fetch")
          /\ run'[r].pc # "fetch"
          /\ run'[r].pc # "digest"
       \/ /\ At(r, "alertSend")
          /\ run'[r].pc # "alertSend"
          /\ run'[r].pc # "alertSave"
       => crawlQueue'[run[r].job].state \in {"delayed", "failed"}]_vars


(***************************************************************************)
(* Jobs that outlive their rows: DELETE /api/companies/:id removes the     *)
(* company and its targets and the demo route removes a target while jobs  *)
(* for them are in the queue; the Evidence collection is only emptied from *)
(* outside (no route deletes an Evidence row, and the jobs live in Redis). *)
(***************************************************************************)
\* Company.findOneAndDelete; CrawlTarget.deleteMany({companyId})
DeleteCompany ==
  /\ CompanyFound
  /\ \A r \in Workers : At(r, "idle")
  /\ company' = <<>>
  /\ crawlTargets' = <<>>
  /\ UNCHANGED <<processes, claims, claimVersions, changeEvents, crawlRuns, evidence, queues,
                 clock, run, counters, history>>

\* CrawlTarget.deleteOne({_id})
DeleteTarget(t) ==
  /\ TargetFound(t)
  /\ \A r \in Workers : ~(InPass(r) /\ run[r].target = t)
  /\ crawlTargets' = [u \in DOMAIN crawlTargets \ {t} |-> crawlTargets[u]]
  /\ UNCHANGED <<processes, company, claims, claimVersions, changeEvents, crawlRuns, evidence,
                 queues, clock, run, counters, history>>

\* An Evidence row is removed from the collection while its job is not running.
EvidenceRemoved(n) ==
  /\ n \in DOMAIN evidenceQueue
  /\ evidenceQueue[n].state # "active"
  /\ EvidenceFound(evidenceQueue[n].evidenceId)
  /\ evidence' = [evidence EXCEPT ![evidenceQueue[n].evidenceId] = NoRow]
  /\ UNCHANGED <<processes, company, crawlTargets, claims, claimVersions, changeEvents, crawlRuns,
                 queues, clock, run, counters, history>>

\* if (!company) throw new Error(`Company not found: ...`)
CompanyNotFound(r) ==
  /\ At(r, "loadCompany")
  /\ ~CompanyFound
  /\ EndPass(r, "threw")
  /\ UNCHANGED <<processes, store, evidenceQueue, clock, counters, history>>

\* The test of the target made after CrawlRun.create instead of before it.
TargetNotFoundLate(r) ==
  /\ At(r, "loadTarget")
  /\ ~TargetFound(run[r].target)
  /\ crawlRuns' = Append(crawlRuns, [status |-> "running"])
  /\ EndPass(r, "threw")
  /\ UNCHANGED <<processes, company, crawlTargets, claims, claimVersions, changeEvents, evidence,
                 evidenceQueue, clock, counters, history>>

\* if (!target) throw new Error(`CrawlTarget not found: ...`)
TargetNotFound(r) ==
  /\ At(r, "loadTarget")
  /\ ~TargetFound(run[r].target)
  /\ EndPass(r, "threw")
  /\ UNCHANGED <<processes, store, evidenceQueue, clock, counters, history>>

\* if (!evidence) throw new Error(`Evidence not found: ...`), before the try block
EvidenceNotFound(n) ==
  /\ EvAt(n, "findById")
  /\ ~EvidenceFound(EvJob(n).evidenceId)
  /\ EvSet(n, [EvJob(n) EXCEPT
                 !.state = IF EvJob(n).attemptsMade + 1 < Attempts THEN "delayed" ELSE "failed",
                 !.attemptsMade = @ + 1, !.pc = ""])
  /\ UNCHANGED <<processes, store, crawlQueue, clock, run, counters, history>>

NextMissing ==
  \/ FirstTick
  \/ PromoteDelayed
  \/ DeleteCompany
  \/ \E t \in Targets : DeleteTarget(t)
  \/ \E r \in Workers :
       \/ TakeJob(r)
       \/ Fetch(r, EvidenceSite)
       \/ LoadCompany(r)
       \/ LoadTarget(r)
       \/ CompanyNotFound(r)
       \/ TargetNotFound(r)
       \/ FindRun(r)
       \/ CreateRun(r)
       \/ Digest(r)
       \/ SweepFind(r)
       \/ SaveTarget(r)
       \/ EvFind(r)
       \/ EvCreate(r)
       \/ EvEnqueue(r)
       \/ SaveRun(r)
  \/ \E n \in EvSlots :
       \/ EvidenceRemoved(n)
       \/ EvTakeJob(n)
       \/ EvLoad(n)
       \/ EvidenceNotFound(n)
       \/ EvParse(n)
       \/ EvSaveReady(n)
       \/ EvSaveFailed(n)
       \/ EvCompleted(n)
       \/ EvPromote(n)

SpecMissing == Init /\ [][NextMissing]_vars

\* The job the worker runs names a company or a target that has no row.
RowMissing(r) == InPass(r) /\ (~CompanyFound \/ ~TargetFound(run[r].target))

\* C26: a step of a crawl job whose company or target row is missing, and a
\* step of an evidence job whose Evidence row is missing, writes nothing to the
\* store; the attempt ends thrown, and the job is failed when that was its
\* third attempt and retried otherwise.
C26_MissingRowThrowsFirst ==
  [][/\ \A r \in Workers :
          (RowMissing(r) /\ run'[r] # run[r]) =>
             /\ UNCHANGED store
             /\ At(r, "idle")' =>
                  LET was == crawlQueue[run[r].job]
                      job == crawlQueue'[run[r].job]
                  IN /\ job.attemptsMade = was.attemptsMade + 1
                     /\ job.state = IF job.attemptsMade < Attempts THEN "delayed" ELSE "failed"
     /\ \A n \in EvSlots :
          (EvAt(n, "findById") /\ ~EvidenceFound(EvJob(n).evidenceId)
             /\ evidenceQueue'[n] # evidenceQueue[n]) =>
             /\ UNCHANGED store
             /\ evidenceQueue'[n].attemptsMade = EvJob(n).attemptsMade + 1
             /\ evidenceQueue'[n].state =
                  IF EvJob(n).attemptsMade + 1 < Attempts THEN "delayed" ELSE "failed"]_vars

\* The job of a deleted target has thrown three times and is failed, and no
\* CrawlRun was ever created.
C26_Witness ==
  \E n \in DOMAIN crawlQueue :
    /\ crawlQueue[n].state = "failed"
    /\ crawlQueue[n].attemptsMade = Attempts
    /\ (~CompanyFound \/ ~TargetFound(crawlQueue[n].target))
    /\ crawlRuns = <<>>


(***************************************************************************)
(* Scenario S3: the sentence that promises not to sell data is replaced by *)
(* one that allows sharing.                                                *)
(***************************************************************************)
WeakeningSite ==
  [t \in Targets |->
     IF t = "t1" THEN <<Short(<<S_DNS>>), Short(<<S_MAY>>)>> ELSE <<Short(<<>>)>>]

\* The company replaces the sentence while no crawl is running.
SentenceReplaced ==
  /\ \A r \in Workers : At(r, "idle")
  /\ SiteChanges(WeakeningSite, "t1")

NextWeakening ==
  \/ FirstTick
  \/ PromoteDelayed
  \/ SentenceReplaced
  \/ \E r \in Workers :
       \/ TakeJob(r)
       \/ Fetch(r, WeakeningSite)
       \/ LastWriteFails(r)
       \/ CrawlSteps(r)
       \/ FindClaim(r)
       \/ CreateClaim(r)
       \/ CreateVersion(r)
       \/ CreateAdded(r)
       \/ SweepSteps(r)
       \/ UpdateRisk(r)

SpecWeakening == Init /\ [][NextWeakening]_vars

\* C27: once the DO_NOT_SELL claim was recorded and the crawl that met the
\* replaced sentence has stored the page's digest, the claim has a
\* WEAKENED/Critical event and the risk score of the company has been raised
\* by 40.
C27_ScenarioWeakening ==
  (/\ ClaimsMatching("privacy", "DO_NOT_SELL") # {}
   /\ crawlTargets["t1"].lastHash = Sha256(WeakeningSite["t1"][2])) =>
     /\ \E m \in DOMAIN changeEvents :
          /\ changeEvents[m].normalizedKey = "DO_NOT_SELL"
          /\ changeEvents[m].eventType = "WEAKENED"
          /\ changeEvents[m].severity = "Critical"
     /\ company.riskScore = 40


(***************************************************************************)
(* The classifier on every kind of last version.  The store holds one      *)
(* claim and its last version, written when the pattern of the key may     *)
(* have carried another polarity (ClaimVersion.polarity is any of          *)
(* positive, negative, neutral); the page now shows one of the texts of    *)
(* the same key and a job for it is waiting.                               *)
(***************************************************************************)
Polarities == {"positive", "negative", "neutral"}

ClassifySite ==
  [t \in Targets |->
     <<Short(<<S_UP_999>>), Short(<<S_UP_9999>>), Short(<<S_UP_STRIVE>>),
       Short(<<S_DNS>>), Short(<<S_DNS, S_MAY>>)>>]

\* The rows of a claim seen earlier on the page old of the site.
StoredClaim(old) ==
  LET c == extract(ClassifySite["t1"][old])[1]
  IN [claimType |-> c.claimType, normalizedKey |-> c.normalizedKey,
      currentStatus |-> "ACTIVE", lastSeenAt |-> 0,
      currentSnippet |-> c.rawTextSnippet, currentSourceUrl |-> Url("t1")]

StoredVersion(old, polarity) ==
  LET c == extract(ClassifySite["t1"][old])[1]
  IN [claimId |-> 1, snippet |-> c.rawTextSnippet, sourceUrl |-> Url("t1"),
      contentHash |-> Sha256(c.rawTextSnippet), seenAt |-> 0,
      polarity |-> polarity, value |-> c.value]

InitClassify ==
  \E old \in DOMAIN ClassifySite["t1"], new \in DOMAIN ClassifySite["t1"],
     polarity \in Polarities :
    /\ extract(ClassifySite["t1"][old])[1].normalizedKey =
         extract(ClassifySite["t1"][new])[1].normalizedKey
    /\ company = [riskScore |-> 0]
    /\ crawlTargets = [t \in Targets |-> [lastHash |-> NoHash]]
    /\ claims = <<StoredClaim(old)>>
    /\ claimVersions = <<StoredVersion(old, polarity)>>
    /\ changeEvents = <<>>
    /\ crawlRuns = <<>>
    /\ evidence = <<>>
    /\ crawlQueue = <<NewJob(JobKey("t1"), "t1")>>
    /\ evidenceQueue = <<>>
    /\ clock = 0
    /\ run = [r \in Runners |-> Idle]
    /\ web = [t \in Targets |-> new]
    /\ passes = 0
    /\ adds = 0
    /\ hours = 0
    /\ extractedOn = [t \in Targets |-> {}]
    /\ baseline = <<>>
    /\ schedulerLock = FALSE
    /\ replicas = [s \in Replicas |-> [pc |-> "idle"]]
    /\ cycle = [fired |-> FALSE, enqueued |-> {}, wedged |-> "no"]
    /\ shutdown = [signal |-> "", handler |-> "", crawlWorker |-> "running",
                   evidenceWorker |-> "running", queues |-> "open"]

NextClassify ==
  \E r \in Workers :
    \/ TakeJob(r)
    \/ LoadCompany(r)
    \/ LoadTarget(r)
    \/ FindRun(r)
    \/ CreateRun(r)
    \/ Fetch(r, ClassifySite)
    \/ Digest(r)
    \/ FindClaim(r)
    \/ FindLast(r)
    \/ AppendVersion(r)
    \/ CreateEvent(r)
    \/ SaveClaim(r)
    \/ TouchClaim(r)
    \/ UpdateRisk(r)
    \/ AlertSteps(r)
    \/ SweepFind(r)
    \/ SaveTarget(r)
    \/ SaveRun(r)

SpecClassify == InitClassify /\ [][NextClassify]_vars

\* The change of the runner's claim is no weakening and no change of number,
\* and the polarity of the extraction is not the one of the last version.
PolarityFlipped(r) ==
  LET last == claimVersions[run[r].lastVersion]
  IN /\ ~detectWeakening(run[r].claim.currentSnippet, Cur(r).rawTextSnippet)
     /\ ~(last.value # 0 /\ Cur(r).value # 0 /\ last.value # Cur(r).value)
     /\ last.polarity # Cur(r).polarity

ScoreSite ==
  [t \in Targets |->
     <<Short(<<S_SOC, S_UP_9999, S_DNS>>), Short(<<S_SOC, S_UP_999, S_DNS>>),
       Short(<<S_UP_9999>>), Short(<<S_SOC, S_UP_STRIVE, S_DNS>>)>>]

\* Keys whose claims were removed before the job.
RemovedEarlier == <<"GDPR", "PCI_DSS">>

\* The Claim rows: one ACTIVE row per claim of the page crawled earlier, then k
\* rows of claims removed earlier.
StoredClaims(page, k) ==
  LET cs == extract(page)
  IN [n \in 1 .. Len(cs) + k |->
        IF n <= Len(cs)
        THEN [claimType |-> cs[n].claimType, normalizedKey |-> cs[n].normalizedKey,
              currentStatus |-> "ACTIVE", lastSeenAt |-> 0,
              currentSnippet |-> cs[n].rawTextSnippet, currentSourceUrl |-> Url("t1")]
        ELSE [claimType |-> "compliance", normalizedKey |-> RemovedEarlier[n - Len(cs)],
              currentStatus |-> "REMOVED", lastSeenAt |-> 0,
              currentSnippet |-> <<S_GDPR, S_PCI>>, currentSourceUrl |-> Url("t1")]]

\* The ClaimVersion rows of the ACTIVE claims.
StoredVersions(page, polarity) ==
  LET cs == extract(page)
  IN [n \in 1 .. Len(cs) |->
        [claimId |-> n, snippet |-> cs[n].rawTextSnippet, sourceUrl |-> Url("t1"),
         contentHash |-> Sha256(cs[n].rawTextSnippet), seenAt |-> 0,
         polarity |-> polarity, value |-> cs[n].value]]

\* The REMOVED/Critical events of the claims removed earlier.
StoredEvents(k) ==
  [n \in 1 .. k |->
     [claimType |-> "compliance", normalizedKey |-> RemovedEarlier[n],
      eventType |-> "REMOVED", severity |-> "Critical",
      oldSnippet |-> <<S_GDPR, S_PCI>>, newSnippet |-> NoSnippet,
      sourceUrl |-> Url("t1"), detectedAt |-> 0, emailedAt |-> NoTime]]

InitScore ==
  \E old \in 1 .. 2, new \in DOMAIN ScoreSite["t1"], polarity \in Polarities,
     k \in 0 .. Len(RemovedEarlier) :
    /\ company = [riskScore |-> RaisedScore(0, k * ScoreIncrease("REMOVED", "Critical"))]
    /\ crawlTargets = [t \in Targets |-> [lastHash |-> Sha256(ScoreSite["t1"][old])]]
    /\ claims = StoredClaims(ScoreSite["t1"][old], k)
    /\ claimVersions = StoredVersions(ScoreSite["t1"][old], polarity)
    /\ changeEvents = StoredEvents(k)
    /\ crawlRuns = <<>>
    /\ evidence = <<>>
    /\ crawlQueue = <<NewJob(JobKey("t1"), "t1")>>
    /\ evidenceQueue = <<>>
    /\ clock = 0
    /\ run = [r \in Runners |-> Idle]
    /\ web = [t \in Targets |-> new]
    /\ passes = 0
    /\ adds = 0
    /\ hours = 0
    /\ extractedOn = [t \in Targets |-> {}]
    /\ baseline = <<>>
    /\ schedulerLock = FALSE
    /\ replicas = [s \in Replicas |-> [pc |-> "idle"]]
    /\ cycle = [fired |-> FALSE, enqueued |-> {}, wedged |-> "no"]
    /\ shutdown = [signal |-> "", handler |-> "", crawlWorker |-> "running",
                   evidenceWorker |-> "running", queues |-> "open"]

NextScore ==
  \E r \in Workers :
    \/ TakeJob(r)
    \/ LoadCompany(r)
    \/ LoadTarget(r)
    \/ FindRun(r)
    \/ CreateRun(r)
    \/ Fetch(r, ScoreSite)
    \/ Digest(r)
    \/ NoChanges(r)
    \/ FindClaim(r)
    \/ FindLast(r)
    \/ AppendVersion(r)
    \/ CreateEvent(r)
    \/ SaveClaim(r)
    \/ UpdateRisk(r)
    \/ AlertSteps(r)
    \/ SweepFind(r)
    \/ SweepSteps(r)
    \/ SaveTarget(r)
    \/ SaveRun(r)

SpecScore == InitScore /\ [][NextScore]_vars

\* The increments of the risk-scoring table.
RiskDelta(eventType, severity) ==
  CASE eventType = "REMOVED" /\ severity = "Critical" -> 40
    [] eventType = "WEAKENED" /\ severity = "Critical" -> 40
    [] eventType = "NUMBER_CHANGED" /\ severity = "Medium" -> 10
    [] eventType = "REVERSED" -> 30
    [] OTHER -> 0

\* An event that is written and whose updateRiskScore has not run yet.
ScorePending(m) ==
  \E r \in Workers : run[r].pc \in {"saveClaim", "risk"} /\ run[r].event = m

RECURSIVE SumOfDeltas(_)
SumOfDeltas(m) ==
  IF m = 0 THEN 0
  ELSE SumOfDeltas(m - 1) +
         (IF ScorePending(m) THEN 0
          ELSE RiskDelta(changeEvents[m].eventType, changeEvents[m].severity))

\* C29: during and after a single crawl job the stored risk score is the sum,
\* capped at 100, of the increments the table gives to the events whose score
\* update has run: 40 for REMOVED/Critical and WEAKENED/Critical, 10 for
\* NUMBER_CHANGED/Medium, 30 for REVERSED, 0 for everything else.
C29_ScoreIsCappedSum ==
  company.riskScore = Min(MaxRisk, SumOfDeltas(Len(changeEvents)))

\* A job has ended after it wrote a NUMBER_CHANGED/Medium, a REVERSED and an
\* event without increment, and the score is 10 + 30.
C29_Witness ==
  /\ crawlQueue[1].state = "completed"
  /\ \E m \in DOMAIN changeEvents :
       changeEvents[m].eventType = "NUMBER_CHANGED" /\ changeEvents[m].severity = "Medium"
  /\ \E m \in DOMAIN changeEvents : changeEvents[m].eventType = "REVERSED"
  /\ \E m \in DOMAIN changeEvents : changeEvents[m].eventType = "ADDED"
  /\ company.riskScore = 40


(***************************************************************************)
(* Evidence fan-out on a page that links one report twice and two more     *)
(* reports after it.                                                       *)
(***************************************************************************)
FanOutSite ==
  [t \in Targets |->
     IF t = "t1"
     THEN <<Pdf(<<>>, <<"soc2.pdf", "soc2.pdf", "iso.pdf", "pentest.pdf">>)>>
     ELSE <<Short(<<>>)>>]

NextFanOut ==
  \/ FirstTick
  \/ \E r \in Workers :
       \/ TakeJob(r)
       \/ Fetch(r, FanOutSite)
       \/ LoadCompany(r)
       \/ LoadTarget(r)
       \/ FindRun(r)
       \/ CreateRun(r)
       \/ Digest(r)
       \/ SweepFind(r)
       \/ SaveTarget(r)
       \/ EvFind(r)
       \/ EvCreate(r)
       \/ EvEnqueue(r)
       \/ SaveRun(r)

SpecFanOut == Init /\ [][NextFanOut]_vars

\* The URLs of a sequence without their repetitions, in order of appearance.
RECURSIVE Distinct(_)
Distinct(urls) ==
  IF urls = <<>> THEN <<>>
  ELSE LET front == Distinct(SubSeq(urls, 1, Len(urls) - 1))
           u == urls[Len(urls)]
       IN IF \E n \in DOMAIN front : front[n] = u THEN front ELSE Append(front, u)

\* The first three of the distinct URLs of a page.
FirstDistinct(urls) == SubSeq(Distinct(urls), 1, Min(Len(Distinct(urls)), MaxPdfs))

\* C30: when the crawl of a page is over (no Evidence row existed before it),
\* there is one PENDING Evidence row and one process_evidence job for each of
\* the first three distinct PDF URLs of the page, in order of appearance.
C30_FirstThreeDistinct ==
  (\E n \in DOMAIN crawlQueue :
      crawlQueue[n].target = "t1" /\ crawlQueue[n].state = "completed") =>
     /\ [n \in DOMAIN evidence |-> evidence[n].pdfUrl] =
          FirstDistinct(FanOutSite["t1"][1].pdfs)
     /\ \A n \in DOMAIN evidence :
          /\ evidence[n].status = "PENDING"
          /\ Cardinality(JobsWithId(evidenceQueue, <<"evidence", n>>)) = 1


(***************************************************************************)
(* Alerts that are not sent: the rate limit, an owner whose User row is    *)
(* gone, a mail service that fails.                                        *)
(***************************************************************************)
\* const user = await User.findById(company.userId); if (!user) { log; return }
AlertUserMissing(r) ==
  /\ At(r, "alertSend")
  /\ Set(r, Resume(run[r]))
  /\ UNCHANGED <<processes, store, queues, clock, counters, history>>

\* Six certifications that all disappear from the page.
NotifySite ==
  [t \in Targets |->
     <<Long(<<S_SOC, S_ISO, S_HIPAA, S_GDPR, S_PCI, S_CCPA>>), Short(<<>>)>>]

NextNotify ==
  \/ enqueueCrawlTarget("t1")
  \/ PromoteDelayed
  \/ SiteChanges(NotifySite, "t1")
  \/ \E r \in Workers :
       \/ TakeJob(r)
       \/ Fetch(r, NotifySite)
       \/ LastWriteFails(r)
       \/ CrawlSteps(r)
       \/ FindClaim(r)
       \/ CreateClaim(r)
       \/ CreateVersion(r)
       \/ CreateAdded(r)
       \/ UpdateRisk(r)
       \/ SweepSteps(r)
       \/ AlertSteps(r)
       \/ AlertUserMissing(r)
       \/ AlertSendThrows(r)

SpecNotify == Init /\ [][NextNotify]_vars

\* The events whose emailedAt the step sets.
Stamped ==
  {m \in DOMAIN changeEvents : changeEvents[m].emailedAt = NoTime /\ changeEvents'[m].emailedAt # NoTime}

\* C31: emailedAt is only set on a Critical event, by the step that follows
\* the successful return of the alert adapter for that event; a runner that
\* leaves sendCriticalAlert without that return (rate limit, missing user,
\* adapter failure) stamps nothing and its job goes on.
C31_EmailedOnlyAfterSend ==
  [][/\ \A m \in Stamped :
          /\ changeEvents[m].severity = "Critical"
          /\ \E r \in Workers : At(r, "alertSave") /\ run[r].event = m
     /\ \A n \in DOMAIN changeEvents' :
          n \notin DOMAIN changeEvents => changeEvents'[n].emailedAt = NoTime
     /\ \A r \in Workers :
          /\ (~At(r, "alertSave") /\ At(r, "alertSave")') => At(r, "alertSend")
          /\ (run[r].pc \in {"alertCount", "alertSend"}
                /\ run'[r].pc \notin {"alertCount", "alertSend", "alertSave"}) =>
               /\ Stamped = {}
               /\ InPass(r)'
               /\ crawlQueue' = crawlQueue]_vars

\* The rate limit has dropped an alert: five Critical events carry a stamp and
\* a later Critical event of a finished job carries none.
C31_Witness ==
  /\ Cardinality(Emailed) >= RateLimit
  /\ \E m \in DOMAIN changeEvents :
       /\ changeEvents[m].severity = "Critical"
       /\ changeEvents[m].emailedAt = NoTime
       /\ \A r \in Workers : run[r].event # m



(***************************************************************************)
(* A claim that leaves one page and is found on another.  The store holds  *)
(* the SOC 2 claim of an earlier crawl of t1; t1 no longer shows it, t2    *)
(* shows it in other words and drops it later.  Jobs for both targets are  *)
(* waiting; the job of t2 is retried after its last write failed.          *)
(***************************************************************************)
RemovalSite ==
  [t \in Targets |->
     IF t = "t1" THEN <<Short(<<S_SOC>>), Short(<<>>)>>
     ELSE <<Short(<<S_SOC_REPORT>>), Short(<<>>)>>]

InitRemoval ==
  LET c == extract(RemovalSite["t1"][1])[1]
  IN /\ company = [riskScore |-> 0]
     /\ crawlTargets = [t \in Targets |->
                          [lastHash |-> IF t = "t1" THEN Sha256(RemovalSite["t1"][1])
                                        ELSE NoHash]]
     /\ claims = <<[claimType |-> c.claimType, normalizedKey |-> c.normalizedKey,
                    currentStatus |-> "ACTIVE", lastSeenAt |-> 0,
                    currentSnippet |-> c.rawTextSnippet, currentSourceUrl |-> Url("t1")]>>
     /\ claimVersions = <<[claimId |-> 1, snippet |-> c.rawTextSnippet,
                           sourceUrl |-> Url("t1"),
                           contentHash |-> Sha256(c.rawTextSnippet), seenAt |-> 0,
                           polarity |-> c.polarity, value |-> c.value]>>
     /\ changeEvents = <<>>
     /\ crawlRuns = <<>>
     /\ evidence = <<>>
     /\ crawlQueue = <<NewJob(JobKey("t1"), "t1"), NewJob(JobKey("t2"), "t2")>>
     /\ evidenceQueue = <<>>
     /\ clock = 0
     /\ run = [r \in Runners |-> Idle]
     /\ web = [t \in Targets |-> IF t = "t1" THEN 2 ELSE 1]
     /\ passes = 0
     /\ adds = 0
     /\ hours = 0
     /\ extractedOn = [t \in Targets |-> {}]
     /\ baseline = <<>>
     /\ schedulerLock = FALSE
     /\ replicas = [s \in Replicas |-> [pc |-> "idle"]]
     /\ cycle = [fired |-> FALSE, enqueued |-> {}, wedged |-> "no"]
     /\ shutdown = [signal |-> "", handler |-> "", crawlWorker |-> "running",
                    evidenceWorker |-> "running", queues |-> "open"]

NextRemoval ==
  \/ PromoteDelayed
  \/ SiteChanges(RemovalSite, "t2")
  \/ \E r \in Workers :
       \/ TakeJob(r)
       \/ Fetch(r, RemovalSite)
       \/ LastWriteFails(r)
       \/ CrawlSteps(r)
       \/ FindClaim(r)
       \/ FindLast(r)
       \/ AppendVersion(r)
       \/ CreateEvent(r)
       \/ SaveClaim(r)
       \/ UpdateRisk(r)
       \/ SweepSteps(r)
       \/ AlertSteps(r)

SpecRemoval == InitRemoval /\ [][NextRemoval]_vars

\* C32: a claim whose status is REMOVED keeps that status in every crawl step,
\* also when a later extraction contains its key again, and a claim never has
\* more than one REMOVED event.
C32_RemovedIsAbsorbing ==
  [][/\ \A n \in DOMAIN claims :
          claims[n].currentStatus = "REMOVED" => claims'[n].currentStatus = "REMOVED"
     /\ \A n \in DOMAIN claims' :
          Cardinality({m \in DOMAIN changeEvents' :
                         /\ changeEvents'[m].normalizedKey = claims'[n].normalizedKey
                         /\ changeEvents'[m].eventType = "REMOVED"}) <= 1]_vars


(***************************************************************************)
(* A crawl job that may fail at any await outside sendCriticalAlert and is *)
(* retried.  The store holds the uptime and ISO claims of an earlier crawl *)
(* of t1; the page now shows a lower uptime and a SOC 2 sentence and no    *)
(* ISO sentence, so one pass changes a claim, adds one and removes one.    *)
(***************************************************************************)
ReplaySite ==
  [t \in Targets |-> <<Short(<<S_UP_9999, S_ISO>>), Short(<<S_UP_999, S_SOC>>)>>]

ThrowPoints ==
  {"loadCompany", "loadTarget", "findRun", "createRun", "fetch", "findClaim",
   "createClaim", "createVersion", "createAdded", "findLast", "appendVersion",
   "createEvent", "saveClaim", "touchClaim", "risk", "sweepFind", "sweepSave",
   "sweepEvent", "saveTarget", "saveRun"}

\* An await of the job rejects: the job function throws.
AnyAwaitThrows(r) == StoreThrows(r, ThrowPoints)

InitReplay ==
  LET cs == extract(ReplaySite["t1"][1])
  IN /\ company = [riskScore |-> 0]
     /\ crawlTargets = [t \in Targets |-> [lastHash |-> Sha256(ReplaySite["t1"][1])]]
     /\ claims = [n \in DOMAIN cs |->
                    [claimType |-> cs[n].claimType, normalizedKey |-> cs[n].normalizedKey,
                     currentStatus |-> "ACTIVE", lastSeenAt |-> 0,
                     currentSnippet |-> cs[n].rawTextSnippet,
                     currentSourceUrl |-> Url("t1")]]
     /\ claimVersions = [n \in DOMAIN cs |->
                    [claimId |-> n, snippet |-> cs[n].rawTextSnippet,
                     sourceUrl |-> Url("t1"),
                     contentHash |-> Sha256(cs[n].rawTextSnippet), seenAt |-> 0,
                     polarity |-> cs[n].polarity, value |-> cs[n].value]]
     /\ changeEvents = <<>>
     /\ crawlRuns = <<>>
     /\ evidence = <<>>
     /\ crawlQueue = <<NewJob(JobKey("t1"), "t1")>>
     /\ evidenceQueue = <<>>
     /\ clock = 0
     /\ run = [r \in Runners |-> Idle]
     /\ web = [t \in Targets |-> 2]
     /\ passes = 0
     /\ adds = 0
     /\ hours = 0
     /\ extractedOn = [t \in Targets |-> {}]
     /\ baseline = <<>>
     /\ schedulerLock = FALSE
     /\ replicas = [s \in Replicas |-> [pc |-> "idle"]]
     /\ cycle = [fired |-> FALSE, enqueued |-> {}, wedged |-> "no"]
     /\ shutdown = [signal |-> "", handler |-> "", crawlWorker |-> "running",
                    evidenceWorker |-> "running", queues |-> "open"]

NextReplay ==
  \/ PromoteDelayed
  \/ \E r \in Workers :
       \/ TakeJob(r)
       \/ Fetch(r, ReplaySite)
       \/ AnyAwaitThrows(r)
       \/ CrawlSteps(r)
       \/ ClaimSteps(r)
       \/ SweepSteps(r)
       \/ AlertSteps(r)

SpecReplay == InitReplay /\ [][NextReplay]_vars

\* The latest version of a claim (sort({seenAt: -1}) over rows appended in time).
LatestVersionOf(id) ==
  LET vs == {v \in DOMAIN claimVersions : claimVersions[v].claimId = id}
  IN IF vs = {} THEN 0 ELSE CHOOSE v \in vs : \A w \in vs : w <= v

\* C33: with retries after a failure at any point, no step creates a second
\* ChangeEvent for a transition that already has one, none appends a
\* ClaimVersion with the digest of the claim's latest version, and none sends
\* an alert for an event that was already alerted.
C33_RetryIsIdempotent ==
  [][/\ Len(changeEvents') > Len(changeEvents) =>
          LET e == changeEvents'[Len(changeEvents')]
          IN \A m \in DOMAIN changeEvents :
               ~ /\ changeEvents[m].normalizedKey = e.normalizedKey
                 /\ changeEvents[m].eventType = e.eventType
                 /\ changeEvents[m].oldSnippet = e.oldSnippet
                 /\ changeEvents[m].newSnippet = e.newSnippet
     /\ Len(claimVersions') > Len(claimVersions) =>
          LET v == claimVersions'[Len(claimVersions')]
          IN LatestVersionOf(v.claimId) # 0 =>
               claimVersions[LatestVersionOf(v.claimId)].contentHash # v.contentHash
     /\ \A r \in Workers :
          (At(r, "alertSend") /\ At(r, "alertSave")') =>
             changeEvents[run[r].event].emailedAt = NoTime]_vars

\* A retry has reached the sweep after an earlier attempt recorded the
\* change, the addition and the removal.
C33_Witness ==
  /\ \E r \in Workers :
       /\ At(r, "sweepFind")
       /\ crawlQueue[run[r].job].attemptsMade >= 1
  /\ \A t \in {"ADDED", "REMOVED"} :
       \E m \in DOMAIN changeEvents : changeEvents[m].eventType = t
  /\ Len(changeEvents) = 3


\* C34: the sweep of a target marks a claim REMOVED exactly when the claim is
\* ACTIVE, its currentSourceUrl is the target's URL and its key is not in the
\* extraction of that target: the query returns those claims and no others,
\* and a crawl of T never removes a claim whose currentSourceUrl is another
\* target's.
C34_SweepCondition ==
  [][\A r \in Workers :
       /\ (At(r, "sweepFind") /\ ~At(r, "sweepFind")') =>
            {run'[r].existing[n].id : n \in DOMAIN run'[r].existing} =
              {n \in DOMAIN claims :
                 /\ claims[n].currentStatus = "ACTIVE"
                 /\ claims[n].currentSourceUrl = Url(run[r].target)
                 /\ claims[n].normalizedKey \notin ExtractedKeys(run[r].extracted)}
       /\ (At(r, "sweepSave") /\ At(r, "sweepEvent")') =>
            /\ claims[Victim(r).id].currentStatus = "ACTIVE"
            /\ claims[Victim(r).id].currentSourceUrl = Url(run[r].target)
            /\ claims[Victim(r).id].normalizedKey \notin ExtractedKeys(run[r].extracted)]_vars


(***************************************************************************)
(* A fan-out that fails.  The page of t1 links two reports; an await of    *)
(* extractAndEnqueueEvidence may reject on any attempt, and the page gets  *)
(* a new sentence later.                                                   *)
(***************************************************************************)
LinksSite ==
  [t \in Targets |->
     <<Pdf(<<>>, <<"soc2.pdf", "iso.pdf">>), Pdf(<<S_SOC>>, <<"soc2.pdf", "iso.pdf">>)>>]

\* Evidence.findOne, Evidence.create or enqueueEvidenceProcessing rejects.
FanOutThrows(r) == StoreThrows(r, {"evFind", "evCreate", "evEnqueue"})

NextLinks ==
  \/ enqueueCrawlTarget("t1")
  \/ PromoteDelayed
  \/ SiteChanges(LinksSite, "t1")
  \/ \E r \in Workers :
       \/ TakeJob(r)
       \/ Fetch(r, LinksSite)
       \/ FanOutThrows(r)
       \/ CrawlSteps(r)
       \/ FindClaim(r)
       \/ CreateClaim(r)
       \/ CreateVersion(r)
       \/ CreateAdded(r)
       \/ EvidenceSteps(r)

SpecLinks == Init /\ [][NextLinks]_vars

\* An Evidence row that is PENDING and has no job, none being added either.
Orphan(n) ==
  /\ evidence[n].status = "PENDING"
  /\ \A j \in DOMAIN evidenceQueue : evidenceQueue[j].evidenceId # n
  /\ \A r \in Workers : ~(At(r, "evEnqueue") /\ run[r].ev = n)

\* The stored digest of every target is the digest of the page it serves.
ContentUnchanged ==
  \A t \in Targets : crawlTargets[t].lastHash = Sha256(LinksSite[t][web[t]])

\* C35: the digest of the target is stored before the fan-out starts; a job
\* that loads a target whose stored digest is the digest of the page creates no
\* Evidence row and no evidence job; and a PENDING row without a job stays so
\* as long as the stored digests are those of the pages served.
C35_DigestBeforeFanOut ==
  [][/\ \A r \in Workers :
          run[r].pc \in {"evFind", "evCreate", "evEnqueue"} =>
             crawlTargets[run[r].target].lastHash = Sha256(run[r].content)
     /\ (Len(evidence') > Len(evidence) \/ Len(evidenceQueue') > Len(evidenceQueue)) =>
          \E r \in Workers :
             /\ run[r].pc \in {"evCreate", "evEnqueue"}
             /\ run[r].tdoc.lastHash # Sha256(run[r].content)
     /\ \A n \in DOMAIN evidence :
          (Orphan(n) /\ ContentUnchanged) =>
             /\ evidence'[n].status = "PENDING"
             /\ \A j \in DOMAIN evidenceQueue' : evidenceQueue'[j].evidenceId # n]_vars

\* The fan-out failed after its first row was created; the retry has ended at
\* the unchanged digest, leaving that row without a job and the second link
\* without a row.
C35_Witness ==
  /\ web["t1"] = 1
  /\ \E j \in DOMAIN crawlQueue :
       crawlQueue[j].state = "completed" /\ crawlQueue[j].attemptsMade >= 1
  /\ Len(evidence) = 1
  /\ Orphan(1)
  /\ evidenceQueue = <<>>


\* A claim marked REMOVED whose REMOVED event was never written and is not
\* about to be.
Lost(n) ==
  /\ claims[n].currentStatus = "REMOVED"
  /\ \A m \in DOMAIN changeEvents :
       ~ /\ changeEvents[m].normalizedKey = claims[n].normalizedKey
         /\ changeEvents[m].eventType = "REMOVED"
  /\ \A r \in Workers : ~(At(r, "sweepEvent") /\ Victim(r).id = n)

\* C36: the sweep has written REMOVED to the claim when it creates the event;
\* after a failure between the two writes the claim stays REMOVED without a
\* REMOVED event: no later sweep visits it, no risk increase and no alert is
\* made for it.
C36_RemovalWithoutEvent ==
  [][/\ \A r \in Workers :
          At(r, "sweepEvent") => claims[Victim(r).id].currentStatus = "REMOVED"
     /\ \A n \in DOMAIN claims :
          Lost(n) =>
            /\ claims'[n].currentStatus = "REMOVED"
            /\ \A m \in DOMAIN changeEvents' :
                 ~ /\ changeEvents'[m].normalizedKey = claims[n].normalizedKey
                   /\ changeEvents'[m].eventType = "REMOVED"
            /\ \A r \in Workers :
                 /\ run'[r].pc \in {"sweepSave", "sweepEvent"} =>
                      run'[r].existing[run'[r].j].id # n
                 /\ (run'[r].pc \in {"risk", "alertCount", "alertSend", "alertSave"}
                     /\ run'[r].ret = "sweep") =>
                      run'[r].existing[run'[r].j].id # n]_vars

\* The job threw between claim.save() and ChangeEvent.create; its retry is
\* over: the ISO claim is REMOVED, no REMOVED event exists, the score has no
\* removal in it and no alert was sent.
C36_Witness ==
  /\ \E n \in DOMAIN claims : Lost(n) /\ claims[n].claimType = "compliance"
  /\ \E j \in DOMAIN crawlQueue :
       crawlQueue[j].state = "completed" /\ crawlQueue[j].attemptsMade >= 1
  /\ company.riskScore < ScoreIncrease("REMOVED", "Critical")
  /\ \A m \in DOMAIN changeEvents : changeEvents[m].emailedAt = NoTime


(***************************************************************************)
(* Claims of every polarity that change their text.  The page of t1 states *)
(* a privacy commitment, an uptime and a certification, and all three are  *)
(* reworded; the job is retried after its last write failed.               *)
(***************************************************************************)
PolaritySite ==
  [t \in Targets |->
     <<Short(<<S_DNS, S_UP_9999, S_SOC>>), Short(<<S_DNS, S_MAY, S_UP_999, S_SOC_REPORT>>),
       Short(<<S_DNS, S_UP_STRIVE>>)>>]

NextPolarity ==
  \/ enqueueCrawlTarget("t1")
  \/ PromoteDelayed
  \/ SiteChanges(PolaritySite, "t1")
  \/ \E r \in Workers :
       \/ TakeJob(r)
       \/ Fetch(r, PolaritySite)
       \/ LastWriteFails(r)
       \/ CrawlSteps(r)
       \/ FindClaim(r)
       \/ CreateClaim(r)
       \/ CreateVersion(r)
       \/ CreateAdded(r)
       \/ FindLast(r)
       \/ AppendVersion(r)
       \/ CreateEvent(r)
       \/ SaveClaim(r)
       \/ UpdateRisk(r)
       \/ SweepSteps(r)
       \/ AlertSteps(r)

SpecPolarity == Init /\ [][NextPolarity]_vars

\* C37: all ClaimVersions of a claim that the crawl wrote from extractions
\* carry the same polarity, and the crawl writes no REVERSED event (so the
\* increment of REVERSED is never added to the score).
C37_PolarityIsFixed ==
  /\ \A v \in DOMAIN claimVersions, w \in DOMAIN claimVersions :
       claimVersions[v].claimId = claimVersions[w].claimId =>
          claimVersions[v].polarity = claimVersions[w].polarity
  /\ \A m \in DOMAIN changeEvents : changeEvents[m].eventType # "REVERSED"
  /\ \A r \in Workers : run[r].eventType # "REVERSED"

\* The privacy claim has a second version and an event for its changed text.
C37_Witness ==
  \E n \in DOMAIN claims :
    /\ claims[n].normalizedKey = "DO_NOT_SELL"
    /\ Cardinality({v \in DOMAIN claimVersions : claimVersions[v].claimId = n}) >= 2
    /\ \E m \in DOMAIN changeEvents :
         /\ changeEvents[m].normalizedKey = "DO_NOT_SELL"
         /\ changeEvents[m].oldSnippet # NoSnippet
         /\ changeEvents[m].newSnippet # NoSnippet


\* C38: no step of a crawl job changes a CrawlRun row (status and finishedAt
\* are written together, by the service only): every run stays running, a job
\* that finds a running run uses it and creates none, and two jobs that both
\* found none leave two running runs.
C38_RunsStayRunning ==
  [][/\ \A n \in DOMAIN crawlRuns :
          crawlRuns[n].status = "running" /\ crawlRuns'[n] = crawlRuns[n]
     /\ \A n \in DOMAIN crawlRuns' : crawlRuns'[n].status = "running"
     /\ \A r \in Workers :
          (At(r, "findRun") /\ ~At(r, "findRun")' /\ crawlRuns # <<>>) =>
             /\ At(r, "fetch")'
             /\ run'[r].crawlRun \in DOMAIN crawlRuns
             /\ crawlRuns' = crawlRuns]_vars

\* Two jobs started side by side and each created a run; one job is over and
\* a later attempt works with the first run, both runs still running.
C38_Witness ==
  /\ Len(crawlRuns) = 2
  /\ \A n \in DOMAIN crawlRuns : crawlRuns[n].status = "running"
  /\ \E j \in DOMAIN crawlQueue : crawlQueue[j].state = "completed"
  /\ \E r \in Workers :
       /\ At(r, "fetch")
       /\ crawlQueue[run[r].job].attemptsMade >= 1
       /\ run[r].crawlRun = 1


(***************************************************************************)
(* The two crawlers on the same store and the same page.  The store holds  *)
(* the claims of an earlier crawl of t1 and a risk score; the page of t1   *)
(* is one of those below (the first is the page crawled earlier), t2 is    *)
(* unchanged.  The job of t1 runs in the worker; its outcome is recorded   *)
(* and the store is put back; then CrawlService.crawlCompany runs.         *)
(***************************************************************************)
EquivSite ==
  [t \in Targets |->
     IF t = "t1"
     THEN <<Page(<<S_UP_9999, S_ISO>>, 3 * LongText, <<>>),
            Page(<<S_UP_999, S_SOC>>, 3 * LongText, <<"soc2.pdf">>),
            Page(<<S_UP_9999, S_ISO, S_DNS>>, 3 * LongText, <<>>),
            Page(<<S_UP_STRIVE, S_ISO>>, 3 * LongText, <<"soc2.pdf", "iso.pdf">>),
            Pdf(<<S_SOC_REPORT>>, <<>>)>>
     ELSE <<Short(<<>>)>>]

\* The risk score of the company before the crawl.
EarlierScore == 70

EquivStore ==
  LET cs == extract(EquivSite["t1"][1])
  IN [company |-> [riskScore |-> EarlierScore],
      crawlTargets |-> [t \in Targets |-> [lastHash |-> Sha256(EquivSite[t][1])]],
      claims |-> [n \in DOMAIN cs |->
                    [claimType |-> cs[n].claimType, normalizedKey |-> cs[n].normalizedKey,
                     currentStatus |-> "ACTIVE", lastSeenAt |-> 0,
                     currentSnippet |-> cs[n].rawTextSnippet,
                     currentSourceUrl |-> Url("t1")]],
      claimVersions |-> [n \in DOMAIN cs |->
                    [claimId |-> n, snippet |-> cs[n].rawTextSnippet,
                     sourceUrl |-> Url("t1"),
                     contentHash |-> Sha256(cs[n].rawTextSnippet), seenAt |-> 0,
                     polarity |-> cs[n].polarity, value |-> cs[n].value]],
      changeEvents |-> <<>>]

InitEquiv ==
  \E new \in DOMAIN EquivSite["t1"] :
    /\ company = EquivStore.company
    /\ crawlTargets = EquivStore.crawlTargets
    /\ claims = EquivStore.claims
    /\ claimVersions = EquivStore.claimVersions
    /\ changeEvents = EquivStore.changeEvents
    /\ crawlRuns = <<>>
    /\ evidence = <<>>
    /\ crawlQueue = <<NewJob(JobKey("t1"), "t1")>>
    /\ evidenceQueue = <<>>
    /\ clock = 0
    /\ run = [r \in Runners |-> Idle]
    /\ web = [t \in Targets |-> IF t = "t1" THEN new ELSE 1]
    /\ passes = 0
    /\ adds = 0
    /\ hours = 0
    /\ extractedOn = [t \in Targets |-> {}]
    /\ baseline = <<>>
    /\ schedulerLock = FALSE
    /\ replicas = [s \in Replicas |-> [pc |-> "idle"]]
    /\ cycle = [fired |-> FALSE, enqueued |-> {}, wedged |-> "no"]
    /\ shutdown = [signal |-> "", handler |-> "", crawlWorker |-> "running",
                   evidenceWorker |-> "running", queues |-> "open"]

\* The rows the two crawlers are compared on.
ClaimTables ==
  [company |-> company, crawlTargets |-> crawlTargets, claims |-> claims,
   claimVersions |-> claimVersions, changeEvents |-> changeEvents]

\* The job of the worker is over: its outcome is kept, and store and clock are
\* put back to what they were before it.
Rewind ==
  /\ baseline = <<>>
  /\ \A r \in Runners : At(r, "idle")
  /\ \E j \in DOMAIN crawlQueue : crawlQueue[j].state = "completed"
  /\ baseline' = ClaimTables
  /\ company' = EquivStore.company
  /\ crawlTargets' = EquivStore.crawlTargets
  /\ claims' = EquivStore.claims
  /\ claimVersions' = EquivStore.claimVersions
  /\ changeEvents' = EquivStore.changeEvents
  /\ crawlRuns' = <<>>
  /\ evidence' = <<>>
  /\ clock' = 0
  /\ UNCHANGED <<processes, queues, run, counters, web, extractedOn>>

\* crawlCompany is called for the second run of the comparison.
StartCompared(r) == baseline # <<>> /\ StartService(r)

NextEquiv ==
  \/ Rewind
  \/ \E r \in Runners :
       \/ TakeJob(r)
       \/ StartCompared(r)
       \/ SvcCreateRun(r)
       \/ SvcLoad(r)
       \/ SvcNext(r)
       \/ SvcFinish(r)
       \/ Fetch(r, EquivSite)
       \/ CrawlSteps(r)
       \/ ClaimSteps(r)
       \/ SweepSteps(r)
       \/ AlertSteps(r)
       \/ EvidenceSteps(r)

SpecEquiv == InitEquiv /\ [][NextEquiv]_vars

\* The service has crawled t1 after the worker did, from the same store.
ServiceCrawled ==
  /\ baseline # <<>>
  /\ \/ \E n \in DOMAIN crawlRuns : crawlRuns[n].status = "completed"
     \/ At("svc", "svcNext") /\ Len(run["svc"].todo) < Len(TargetOrder)

====
